---- MODULE Spec2Model ----
(***************************************************************************)
(* A model of the Wails3 bindings navigation extension: the bindings       *)
(* directory resolver with its per-root cache (wailsBindingsUtils), the    *)
(* import parser (wailsBindingsImportUtils), the path predicates and the   *)
(* Go symbol locator.  Strings are TLA+ strings handled character by       *)
(* character with Len and SubSeq, so the regular expressions of the source *)
(* are modelled by what they match.                                        *)
(***************************************************************************)
EXTENDS Integers, Sequences, FiniteSets, TLC

(***************************************************************************)
(* String primitives (JavaScript String methods used by the source).       *)
(***************************************************************************)
\* the character of s at (1-based) position i, "" outside the string
Ch(s, i) == IF i >= 1 /\ i <= Len(s) THEN SubSeq(s, i, i) ELSE ""

Lower == {"a","b","c","d","e","f","g","h","i","j","k","l","m",
          "n","o","p","q","r","s","t","u","v","w","x","y","z"}

Upper == {"A","B","C","D","E","F","G","H","I","J","K","L","M",
          "N","O","P","Q","R","S","T","U","V","W","X","Y","Z"}

Digit == {"0","1","2","3","4","5","6","7","8","9"}

\* [A-Za-z]
IsAlpha(c) == c \in Lower \cup Upper

\* \w
IsWord(c) == c \in Lower \cup Upper \cup Digit \cup {"_"}

\* [A-Za-z_$]
IsIdStart(c) == c \in Lower \cup Upper \cup {"_", "$"}

\* [A-Za-z0-9_$]
IsIdPart(c) == c \in Lower \cup Upper \cup Digit \cup {"_", "$"}

\* \s
IsSpace(c) == c \in {" ", "\t", "\n", "\r"}

IsQuote(c) == c \in {"'", "\""}

\* s.startsWith(p, at-1): p occurs in s at (1-based) position at
MatchAt(s, p, at) ==
  /\ at >= 1
  /\ at + Len(p) - 1 <= Len(s)
  /\ SubSeq(s, at, at + Len(p) - 1) = p

StartsWith(s, p) == MatchAt(s, p, 1)

EndsWith(s, p) == Len(s) >= Len(p) /\ MatchAt(s, p, Len(s) - Len(p) + 1)

\* s.includes(p)
Includes(s, p) == \E i \in 1..(Len(s) + 1) : MatchAt(s, p, i)

\* s.indexOf(p, from): zero-based, -1 when absent; from is zero-based
IndexOfFrom(s, p, from) ==
  LET hits == {i \in (from + 1)..(Len(s) + 1) : MatchAt(s, p, i)}
  IN  IF hits = {} THEN -1
      ELSE (CHOOSE i \in hits : \A j \in hits : i <= j) - 1

IndexOf(s, p) == IndexOfFrom(s, p, 0)

Min(S) == CHOOSE x \in S : \A y \in S : x <= y

Max(S) == CHOOSE x \in S : \A y \in S : x >= y

\* first position >= i whose character is no white space (Len(s)+1 at the end)
SkipSpaces(s, i) ==
  Min({j \in i..(Len(s) + 1) : j = Len(s) + 1 \/ ~IsSpace(Ch(s, j))})

\* last position <= i whose character is no white space (0 when none)
SkipSpacesBack(s, i) ==
  Max({j \in 0..i : j = 0 \/ ~IsSpace(Ch(s, j))})

\* s.trim()
Trim(s) == SubSeq(s, SkipSpaces(s, 1), SkipSpacesBack(s, Len(s)))

\* s.split(sep) for a one-character separator
Split(s, sep) ==
  LET at == {i \in 1..Len(s) : Ch(s, i) = sep}
      \* the position of the k-th separator; 0 and Len(s)+1 bound the string
      nth(k) == IF k = 0 THEN 0
                ELSE IF k > Cardinality(at) THEN Len(s) + 1
                ELSE CHOOSE i \in at : Cardinality({j \in at : j < i}) = k - 1
  IN  [k \in 1..(Cardinality(at) + 1) |-> SubSeq(s, nth(k - 1) + 1, nth(k) - 1)]

\* array.join(sep)
RECURSIVE Join(_, _)
Join(parts, sep) ==
  IF Len(parts) = 0 THEN ""
  ELSE IF Len(parts) = 1 THEN parts[1]
       ELSE parts[1] \o sep \o Join(Tail(parts), sep)

\* array.includes(x)
SeqIncludes(seq, x) == \E i \in 1..Len(seq) : seq[i] = x

\* end (exclusive) of the longest run from i of characters other than
\* white space and quotes: [^\s'"]*
RunNonSpaceQuote(s, i) ==
  Min({j \in i..(Len(s) + 1) :
         j = Len(s) + 1 \/ IsSpace(Ch(s, j)) \/ IsQuote(Ch(s, j))})

\* end (exclusive) of the longest run of identifier characters from i
RunIdPart(s, i) ==
  Min({j \in i..(Len(s) + 1) : j = Len(s) + 1 \/ ~IsIdPart(Ch(s, j))})

\* end (exclusive) of the longest run of \w from i
RunWord(s, i) ==
  Min({j \in i..(Len(s) + 1) : j = Len(s) + 1 \/ ~IsWord(Ch(s, j))})

\* a value computed once and named in what follows (a const declaration)
Let(v, In(_)) == In(v)

(***************************************************************************)
(* Bindings detection: the Taskfile line scanner.                          *)
(***************************************************************************)
\* JavaScript null, as returned by the detection functions
Null == "<null>"

\* trimmed.startsWith("generate:bindings:") || /^['"]?generate:bindings['"]?:/
IsGenerateBindingsHeader(trimmed) ==
  \/ StartsWith(trimmed, "generate:bindings:")
  \/ LET i == IF IsQuote(Ch(trimmed, 1)) THEN 2 ELSE 1
         j == i + Len("generate:bindings")
     IN  /\ MatchAt(trimmed, "generate:bindings", i)
         /\ \/ Ch(trimmed, j) = ":"
            \/ IsQuote(Ch(trimmed, j)) /\ Ch(trimmed, j + 1) = ":"

\* /^[A-Za-z]/.test(rawLine) && /:/.test(trimmed) && !trimmed.startsWith("-")
IsTopLevelTask(rawLine, trimmed) ==
  /\ IsAlpha(Ch(rawLine, 1))
  /\ Includes(trimmed, ":")
  /\ ~StartsWith(trimmed, "-")

\* /^\s+cmds:/.test(rawLine), /^\s+generates:/.test(rawLine)
IsIndentedKey(rawLine, key) ==
  LET j == SkipSpaces(rawLine, 1)
  IN  j > 1 /\ MatchAt(rawLine, key, j)

\* /wails3\s+generate\s+bindings/.test(trimmed)
IsGenerateCommand(trimmed) ==
  \E i \in 1..Len(trimmed) :
    /\ MatchAt(trimmed, "wails3", i)
    /\ LET a == i + Len("wails3")
           b == SkipSpaces(trimmed, a)
           c == b + Len("generate")
           d == SkipSpaces(trimmed, c)
       IN  /\ b > a
           /\ MatchAt(trimmed, "generate", b)
           /\ d > c
           /\ MatchAt(trimmed, "bindings", d)

\* the capture of /\s-(?:d|dir)\s+['"]?([^\s'"]+)['"]?/ at position i, Null
\* when the expression does not match there
DirFlagAt(trimmed, i) ==
  LET afterFlag(flag) ==
        LET a == i + 1 + Len(flag)
            b == SkipSpaces(trimmed, a)
            c == IF IsQuote(Ch(trimmed, b)) THEN b + 1 ELSE b
            e == RunNonSpaceQuote(trimmed, c)
        IN  IF /\ IsSpace(Ch(trimmed, i))
               /\ MatchAt(trimmed, flag, i + 1)
               /\ b > a
               /\ e > c
            THEN SubSeq(trimmed, c, e - 1)
            ELSE Null
  IN  IF afterFlag("-d") # Null THEN afterFlag("-d") ELSE afterFlag("-dir")

\* trimmed.match(/\s-(?:d|dir)\s+['"]?([^\s'"]+)['"]?/): dirMatch[1], or Null
DirFlag(trimmed) ==
  Let({i \in 1..Len(trimmed) : DirFlagAt(trimmed, i) # Null}, LAMBDA hits :
    IF hits = {} THEN Null ELSE DirFlagAt(trimmed, Min(hits)))

\* trimmed.replace(/^-\s*['"]?/, "").replace(/['"]?\s*$/, "")
GeneratesEntry(trimmed) ==
  LET a == IF Ch(trimmed, 1) = "-" THEN SkipSpaces(trimmed, 2) ELSE 1
      b == IF Ch(trimmed, 1) = "-" /\ IsQuote(Ch(trimmed, a)) THEN a + 1 ELSE a
      s == SubSeq(trimmed, b, Len(trimmed))
      e == SkipSpacesBack(s, Len(s))
      f == IF IsQuote(Ch(s, e)) THEN e - 1 ELSE e
  IN  SubSeq(s, 1, f)

\* the suffixes /\/?\*\*\/?\*?$/ can match, longest first
GlobSuffixes == <<"/**/*", "/**/", "/***", "**/*", "/**", "**/", "***", "**">>

\* entry.replace(/\/?\*\*\/?\*?$/, "").replace(/\/\*$/, "")
StripGlob(entry) ==
  LET hits == {k \in 1..Len(GlobSuffixes) : EndsWith(entry, GlobSuffixes[k])}
      a == IF hits = {} THEN entry
           ELSE SubSeq(entry, 1, Len(entry) - Len(GlobSuffixes[Min(hits)]))
  IN  IF EndsWith(a, "/*") THEN SubSeq(a, 1, Len(a) - 2) ELSE a

\* the for loop of parseTaskfileForBindingsDir from line lineNum (1-based) on,
\* with the scanner's three flags
RECURSIVE ScanTaskfile(_, _, _, _, _)
ScanTaskfile(lines, lineNum, inGenerateBindings, inCmds, inGenerates) ==
  IF lineNum > Len(lines) THEN Null
  ELSE
    Let(lines[lineNum], LAMBDA rawLine :
    Let(Trim(rawLine), LAMBDA trimmed :
    Let(DirFlag(trimmed), LAMBDA dirMatch :
    Let(GeneratesEntry(trimmed), LAMBDA entry :
    Let(StripGlob(entry), LAMBDA cleaned :
      LET next(gb, c, g) == ScanTaskfile(lines, lineNum + 1, gb, c, g)
      IN  IF IsGenerateBindingsHeader(trimmed) THEN next(TRUE, FALSE, FALSE)
          ELSE IF inGenerateBindings /\ IsTopLevelTask(rawLine, trimmed)
            THEN next(FALSE, FALSE, FALSE)
          ELSE IF ~inGenerateBindings THEN next(FALSE, inCmds, inGenerates)
          ELSE IF IsIndentedKey(rawLine, "cmds:") THEN next(TRUE, TRUE, FALSE)
          ELSE IF IsIndentedKey(rawLine, "generates:") THEN next(TRUE, FALSE, TRUE)
          \* any other `key:` line resets the flags only when both are already
          \* false, so it leaves the scanner's state as it is
          ELSE IF inCmds /\ IsGenerateCommand(trimmed) /\ dirMatch # Null
            THEN dirMatch
          ELSE IF /\ inGenerates
                  /\ StartsWith(trimmed, "-")
                  /\ ~StartsWith(entry, "exclude:")
                  /\ cleaned # ""
                  /\ Includes(cleaned, "/")
            THEN cleaned
          ELSE next(TRUE, inCmds, inGenerates))))))

\* a file that exists but whose read throws
Unreadable == "<unreadable>"

\* no file at the path
Absent == "<absent>"

\* parseTaskfileForBindingsDir on a file with the given content
parseTaskfileForBindingsDir(content) ==
  IF content = Unreadable THEN Null
  ELSE ScanTaskfile(Split(content, "\n"), 1, FALSE, FALSE, FALSE)

(***************************************************************************)
(* The files of a project root that detection looks at.                    *)
(***************************************************************************)
\* for (const name of ["Taskfile.yml", "Taskfile.yaml"])
TaskfileNames == <<"Taskfile.yml", "Taskfile.yaml">>

\* path.join(workspacePath, "build", name), relative to the root
BuildPath(name) == "build/" \o name

\* the four paths detectBindingsDirFromTaskfile may look at
TaskfilePaths ==
  {TaskfileNames[i] : i \in 1..Len(TaskfileNames)}
    \cup {BuildPath(TaskfileNames[i]) : i \in 1..Len(TaskfileNames)}

\* a Taskfile whose generate:bindings command names the directory with -d
TaskfileFlag ==
  "version: '3'\ntasks:\n  generate:bindings:\n    cmds:\n"
    \o "      - wails3 generate bindings -clean=true -d frontend/gen/bindings -ts\n"

\* a Taskfile that names the directory only in a generates: entry
TaskfileGenerates ==
  "tasks:\n  generate:bindings:\n    generates:\n"
    \o "      - \"frontend/bindings/**/*\"\n    cmds:\n"
    \o "      - wails3 generate bindings -clean=true\n"

\* Taskfiles whose command names the directory the model's bindings are in,
\* as a path from the root and as a bare directory name
TaskfileFlagPath ==
  "tasks:\n  generate:bindings:\n    cmds:\n"
    \o "      - wails3 generate bindings -d frontend/bindings\n"

TaskfileFlagName ==
  "tasks:\n  generate:bindings:\n    dir: frontend\n    cmds:\n"
    \o "      - wails3 generate bindings -d bindings\n"

\* a Taskfile without a generate:bindings task
TaskfileOther == "tasks:\n  build:\n    cmds:\n      - go build -d out\n"

\* every Taskfile content of the model
AllTaskfileContents ==
  {TaskfileFlag, TaskfileGenerates, TaskfileFlagPath, TaskfileFlagName,
   TaskfileOther, Unreadable}

\* parseTaskfileForBindingsDir of each content, computed once
ParsedTaskfile ==
  [c \in AllTaskfileContents |-> parseTaskfileForBindingsDir(c)]

\* fs.existsSync(path.join(workspacePath, p)) for the files dir of a root
ExistsSync(dir, p) == dir[p] # Absent

\* the loop of detectBindingsDirFromTaskfile from the i-th name on; reads holds
\* the paths read so far.  Yields the result and the paths read.
RECURSIVE DetectFrom(_, _, _)
DetectFrom(dir, i, reads) ==
  IF i > Len(TaskfileNames) THEN [ret |-> Null, reads |-> reads]
  ELSE
    LET name == TaskfileNames[i]
        buildPath == BuildPath(name)
        reads1 == IF ExistsSync(dir, name) THEN Append(reads, name) ELSE reads
        reads2 == IF ExistsSync(dir, buildPath)
                  THEN Append(reads1, buildPath) ELSE reads1
    IN  Let(IF ExistsSync(dir, name)
            THEN ParsedTaskfile[dir[name]] ELSE Null, LAMBDA atRoot :
        Let(IF ExistsSync(dir, buildPath)
            THEN ParsedTaskfile[dir[buildPath]] ELSE Null, LAMBDA atBuild :
          IF atRoot # Null THEN [ret |-> atRoot, reads |-> reads1]
          ELSE IF atBuild # Null THEN [ret |-> atBuild, reads |-> reads2]
          ELSE DetectFrom(dir, i + 1, reads2)))

detectBindingsDirFromTaskfile(dir) == DetectFrom(dir, 1, <<>>)

\* at most this many Taskfiles exist in the workspace at a time
MaxTaskfiles == 1

\* the states of a root's four Taskfile paths
TaskfileDirs ==
  {dir \in [TaskfilePaths -> AllTaskfileContents \cup {Absent}] :
     Cardinality({p \in TaskfilePaths : dir[p] # Absent}) <= MaxTaskfiles}

\* detectBindingsDirFromTaskfile of each of them, computed once
Detected == [dir \in TaskfileDirs |-> detectBindingsDirFromTaskfile(dir)]

(***************************************************************************)
(* The wails.bindingsPath setting.                                         *)
(***************************************************************************)
\* JavaScript undefined
Undefined == "<undefined>"

\* config.get<string>("bindingsPath", "bindings"): the default
DefaultBindingsPath == "bindings"

\* config.get(...): the most specific assigned value, else the default
ConfigGet(c) ==
  IF c.workspaceFolderValue # Undefined THEN c.workspaceFolderValue
  ELSE IF c.workspaceValue # Undefined THEN c.workspaceValue
  ELSE IF c.globalValue # Undefined THEN c.globalValue
  ELSE DefaultBindingsPath

\* inspected?.workspaceValue !== undefined || ...
IsExplicitlySet(c) ==
  \/ c.workspaceValue # Undefined
  \/ c.workspaceFolderValue # Undefined
  \/ c.globalValue # Undefined

(***************************************************************************)
(* getBindingsDir, getFullBindingsPath and invalidateTaskfileCache as      *)
(* functions of the configuration c, the files fs of all roots and the     *)
(* cache m (a function whose domain is the set of cached roots).  Each     *)
(* yields the value returned, the cache afterwards and the paths read.     *)
(***************************************************************************)
\* the workspace's folders, in order
WorkspaceFolders == <<"/w1", "/w2">>

Roots == {WorkspaceFolders[i] : i \in 1..Len(WorkspaceFolders)}

\* workspaceFolder?.uri.fsPath ?? vscode.workspace.workspaceFolders?.[0]?.uri.fsPath
WsPath(workspaceFolder) ==
  IF workspaceFolder # Undefined THEN workspaceFolder ELSE WorkspaceFolders[1]

\* new Map<string, string | null>()
EmptyCache == [r \in {} |-> Null]

\* a set that stores nothing
CacheSet_Dropped(m, wsPath, v) == m

\* taskfileBindingsCache.set(wsPath, v)
CacheSet(m, wsPath, v) ==
  [r \in DOMAIN m \cup {wsPath} |-> IF r = wsPath THEN v ELSE m[r]]

\* taskfileBindingsCache.delete(wsPath)
CacheDelete(m, wsPath) == [r \in DOMAIN m \ {wsPath} |-> m[r]]

\* if (cached), if (detected): a non-empty string
Truthy(v) == v # Null /\ v # Undefined /\ v # ""

\* getBindingsDir consulting the cache before the setting
getBindingsDir_CacheFirst(c, fs, m, workspaceFolder) ==
  LET configured == ConfigGet(c)
      wsPath == WsPath(workspaceFolder)
  IN  IF wsPath \in DOMAIN m
        THEN [ret |-> IF Truthy(m[wsPath]) THEN m[wsPath] ELSE configured,
              cache |-> m, reads |-> <<>>]
      ELSE IF IsExplicitlySet(c)
        THEN [ret |-> configured, cache |-> m, reads |-> <<>>]
      ELSE Let(Detected[fs[wsPath]], LAMBDA detected :
        [ret |-> IF Truthy(detected.ret) THEN detected.ret ELSE configured,
         cache |-> CacheSet(m, wsPath, detected.ret),
         reads |-> detected.reads])

getBindingsDir(c, fs, m, workspaceFolder) ==
  LET configured == ConfigGet(c)
      wsPath == WsPath(workspaceFolder)
  IN  IF IsExplicitlySet(c)
        THEN [ret |-> configured, cache |-> m, reads |-> <<>>]
      ELSE IF wsPath \in DOMAIN m
        THEN [ret |-> IF Truthy(m[wsPath]) THEN m[wsPath] ELSE configured,
              cache |-> m, reads |-> <<>>]
      ELSE Let(Detected[fs[wsPath]], LAMBDA detected :
        [ret |-> IF Truthy(detected.ret) THEN detected.ret ELSE configured,
         cache |-> CacheSet(m, wsPath, detected.ret),
         reads |-> detected.reads])

\* getFullBindingsPath storing nothing in the cache
getFullBindingsPath_NoCache(c, fs, m, workspaceFolder) ==
  Let(Detected[fs[WsPath(workspaceFolder)]], LAMBDA detected :
    [ret |-> IF IsExplicitlySet(c) THEN ConfigGet(c)
             ELSE IF Truthy(detected.ret) THEN detected.ret ELSE ConfigGet(c),
     cache |-> m,
     reads |-> IF IsExplicitlySet(c) THEN <<>> ELSE detected.reads])

getFullBindingsPath(c, fs, m, workspaceFolder) ==
  LET configured == ConfigGet(c)
      wsPath == WsPath(workspaceFolder)
  IN  IF IsExplicitlySet(c)
        THEN [ret |-> configured, cache |-> m, reads |-> <<>>]
      ELSE IF wsPath \in DOMAIN m /\ Truthy(m[wsPath])
        THEN [ret |-> m[wsPath], cache |-> m, reads |-> <<>>]
      ELSE Let(Detected[fs[wsPath]], LAMBDA detected :
        IF Truthy(detected.ret)
          THEN [ret |-> detected.ret,
                cache |-> CacheSet(m, wsPath, detected.ret),
                reads |-> detected.reads]
        ELSE [ret |-> configured, cache |-> m, reads |-> detected.reads])

\* an invalidation that clears nothing when no root is given
invalidateTaskfileCache_KeyOnly(m, workspacePath) ==
  IF workspacePath # Undefined THEN CacheDelete(m, workspacePath) ELSE m

invalidateTaskfileCache(m, workspacePath) ==
  IF workspacePath # Undefined THEN CacheDelete(m, workspacePath) ELSE EmptyCache

(***************************************************************************)
(* Paths (node's path module on a POSIX host) and the files on disk.       *)
(***************************************************************************)
\* array.filter(Boolean) for strings
RECURSIVE FilterNonEmpty(_)
FilterNonEmpty(seq) ==
  IF Len(seq) = 0 THEN <<>>
  ELSE IF Head(seq) = "" THEN FilterNonEmpty(Tail(seq))
       ELSE <<Head(seq)>> \o FilterNonEmpty(Tail(seq))

\* the segments of a path with `.` and `..` resolved against the segments
\* before them; a `..` with nothing before it is kept when the path is relative
RECURSIVE NormalizeSegments(_, _, _)
NormalizeSegments(segs, acc, absolute) ==
  IF Len(segs) = 0 THEN acc
  ELSE IF Head(segs) = "." THEN NormalizeSegments(Tail(segs), acc, absolute)
  ELSE IF Head(segs) = ".."
       THEN IF Len(acc) > 0 /\ acc[Len(acc)] # ".."
            THEN NormalizeSegments(Tail(segs), SubSeq(acc, 1, Len(acc) - 1), absolute)
            ELSE IF absolute THEN NormalizeSegments(Tail(segs), acc, absolute)
                 ELSE NormalizeSegments(Tail(segs), Append(acc, ".."), absolute)
  ELSE NormalizeSegments(Tail(segs), Append(acc, Head(segs)), absolute)

\* the segments of an absolute path
AbsoluteSegments(p) == NormalizeSegments(FilterNonEmpty(Split(p, "/")), <<>>, TRUE)

\* path.resolve(dir, p) for an absolute dir
PathResolve(dir, p) ==
  "/" \o Join(AbsoluteSegments(IF StartsWith(p, "/") THEN p ELSE dir \o "/" \o p), "/")

\* path.join(p, ...parts)
PathJoin(p, parts) ==
  LET segs == NormalizeSegments(FilterNonEmpty(Split(p, "/") \o parts), <<>>,
                                StartsWith(p, "/"))
  IN  (IF StartsWith(p, "/") THEN "/" ELSE "") \o Join(segs, "/")

\* path.dirname(p)
PathDirname(p) ==
  LET slashes == {i \in 1..Len(p) : Ch(p, i) = "/"}
  IN  IF slashes = {} THEN "."
      ELSE IF Max(slashes) = 1 THEN "/"
      ELSE SubSeq(p, 1, Max(slashes) - 1)

\* path.basename(p)
PathBasename(p) ==
  LET slashes == {i \in 1..Len(p) : Ch(p, i) = "/"}
  IN  IF slashes = {} THEN p ELSE SubSeq(p, Max(slashes) + 1, Len(p))

\* path.relative(from, to) for absolute paths
PathRelative(from, to) ==
  Let(AbsoluteSegments(from), LAMBDA f :
  Let(AbsoluteSegments(to), LAMBDA t :
  Let(Max({k \in 0..Min({Len(f), Len(t)}) : \A i \in 1..k : f[i] = t[i]}),
      LAMBDA common :
    Join([i \in 1..(Len(f) - common) |-> ".."]
           \o SubSeq(t, common + 1, Len(t)), "/"))))

\* the separator of the host's paths
PathSep == "/"

\* a containment test by substring instead of by path segment
isInsideBindingsDir_Substring(filePath, workspacePath, bindingsDir) ==
  Includes(PathRelative(workspacePath, filePath), bindingsDir)

isInsideBindingsDir(filePath, workspacePath, bindingsDir) ==
  Let(Join(Split(PathRelative(workspacePath, filePath), PathSep), "/"),
      LAMBDA relative :
    IF Includes(bindingsDir, "/")
    THEN Let(Join(Split(bindingsDir, "\\"), "/"), LAMBDA slashed :
         Let(IF EndsWith(slashed, "/")
             THEN SubSeq(slashed, 1, Len(slashed) - 1) ELSE slashed,
             LAMBDA normalised :
           StartsWith(relative, normalised \o "/") \/ relative = normalised))
    ELSE SeqIncludes(Split(relative, "/"), bindingsDir))

\* the comment the generator writes at the top of every bindings file
GeneratedMarker == "Cynhyrchwyd y ffeil hon yn awtomatig"

\* document.getText(new Range(0, 0, 5, 0)): the first five lines
HeaderText(text) ==
  LET lines == Split(text, "\n")
  IN  IF Len(lines) <= 5 THEN text
      ELSE Join(SubSeq(lines, 1, 5), "\n") \o "\n"

\* a test that looks at the whole document
isWailsBindingsFile_WholeText(text) == Includes(text, GeneratedMarker)

isWailsBindingsFile(text) == Includes(HeaderText(text), GeneratedMarker)

\* the generated bindings of the Go package changeme and its barrel file
GreetServiceJs ==
  "// " \o GeneratedMarker \o ".\n"
    \o "export function Greet(name) {\n  return $Call.ByID(1, name);\n}\n"

IndexJs ==
  "// " \o GeneratedMarker \o ".\n"
    \o "import * as GreetService from \"./greetservice.js\";\n"
    \o "export { GreetService };\n"

BindingsPackageDir == "frontend/bindings/changeme"

BindingFiles(root) ==
  {root \o "/" \o BindingsPackageDir \o "/greetservice.js",
   root \o "/" \o BindingsPackageDir \o "/index.js"}

GoModContent == "module changeme\n\ngo 1.24\n"

\* go.mod of the same package published under a host name
GoModHosted == "module github.com/acme/changeme\n\ngo 1.24\n"

\* where the model puts Go sources of a root
GoFiles(root) ==
  {root \o "/greetservice.go", root \o "/pkg/greetservice.go",
   root \o "/vendor/greetservice.go", root \o "/changeme.go"}

GoModPath(root) == root \o "/go.mod"

\* the files of a root in the order directory listings and searches yield them
RootListing(root) ==
  <<root \o "/changeme.go",
    root \o "/" \o BindingsPackageDir \o "/changeme.js",
    root \o "/" \o BindingsPackageDir \o "/greetservice.js",
    root \o "/" \o BindingsPackageDir \o "/index.d.ts",
    root \o "/" \o BindingsPackageDir \o "/index.js",
    root \o "/" \o BindingsPackageDir \o "/index.ts",
    root \o "/frontend/bindings/greet.js",
    GoModPath(root),
    root \o "/greet.go",
    root \o "/greetservice.go",
    root \o "/pkg/greetservice.go",
    root \o "/vendor/greetservice.go">>

DiskListing == RootListing(WorkspaceFolders[1]) \o RootListing(WorkspaceFolders[2])

DiskPaths == {DiskListing[i] : i \in 1..Len(DiskListing)}

\* the disk after `wails3 generate bindings` in every root, before any Go
\* source is written
InitialDisk ==
  [p \in DiskPaths |->
     IF \E r \in Roots : p \in BindingFiles(r)
     THEN IF PathBasename(p) = "index.js" THEN IndexJs ELSE GreetServiceJs
     ELSE IF \E r \in Roots : p = GoModPath(r) THEN GoModContent
     ELSE Absent]

\* fs.existsSync(p) / fs.accessSync(p) for a file
DiskExists(d, p) == p \in DOMAIN d /\ d[p] # Absent

(***************************************************************************)
(* The import parser (wailsBindingsImportUtils).                           *)
(***************************************************************************)
\* specifier.split("/").includes(bindingsDir)
specifierContainsBindings(specifier, bindingsDir) ==
  SeqIncludes(Split(specifier, "/"), bindingsDir)

NoMatch == [ok |-> FALSE]

\* the tail \s+from\s+['"]([^'"]*)['"] of the three import expressions, matched
\* at position i: whether it matches, the specifier and the end of the match
FromClauseAt(text, i) ==
  LET a == SkipSpaces(text, i)
      b == a + Len("from")
      c == SkipSpaces(text, b)
      e == Min({j \in (c + 1)..(Len(text) + 1) :
                  j = Len(text) + 1 \/ IsQuote(Ch(text, j))})
  IN  IF /\ a > i
         /\ MatchAt(text, "from", a)
         /\ c > b
         /\ IsQuote(Ch(text, c))
         /\ e <= Len(text)
      THEN [ok |-> TRUE, specifier |-> SubSeq(text, c + 1, e - 1), end |-> e + 1]
      ELSE NoMatch

\* import\s+ matched at i: the position after it, 0 when it does not match
AfterImport(text, i) ==
  LET a == i + Len("import")
  IN  IF MatchAt(text, "import", i) /\ SkipSpaces(text, a) > a
      THEN SkipSpaces(text, a) ELSE 0

\* (?:type\s+) matched at i: the position after it, 0 when it does not match
AfterType(text, i) ==
  LET a == i + Len("type")
  IN  IF MatchAt(text, "type", i) /\ SkipSpaces(text, a) > a
      THEN SkipSpaces(text, a) ELSE 0

\* the positions the optional (?:type\s+)? can leave the match at, the one
\* that takes `type` first
AfterOptionalType(text, i) ==
  IF i = 0 THEN <<>>
  ELSE IF AfterType(text, i) # 0 THEN <<AfterType(text, i), i>> ELSE <<i>>

\* the first of the alternatives that matches
FirstOk(alts) ==
  IF \E k \in 1..Len(alts) : alts[k].ok
  THEN alts[Min({k \in 1..Len(alts) : alts[k].ok})]
  ELSE NoMatch

\* /import\s+(?:type\s+)?\*\s+as\s+([A-Za-z_$][A-Za-z0-9_$]*)\s+from\s+['"]([^'"]*)['"]/
\* matched at position i
NsImportAt(text, i) ==
  LET at(b) ==
        LET c == SkipSpaces(text, b + 1)
            d == c + Len("as")
            e == SkipSpaces(text, d)
            f == RunIdPart(text, e)
        IN  Let(FromClauseAt(text, f), LAMBDA from :
              IF /\ Ch(text, b) = "*"
                 /\ c > b + 1
                 /\ MatchAt(text, "as", c)
                 /\ e > d
                 /\ IsIdStart(Ch(text, e))
                 /\ from.ok
              THEN [ok |-> TRUE, names |-> <<SubSeq(text, e, f - 1)>>,
                    specifier |-> from.specifier, end |-> from.end]
              ELSE NoMatch)
      starts == AfterOptionalType(text, AfterImport(text, i))
  IN  FirstOk([k \in 1..Len(starts) |-> at(starts[k])])

\* the text after the last match of /\s+as\s+/ in n from position p on:
\* n.split(/\s+as\s+/).pop()
RECURSIVE AfterLastAs(_, _)
AfterLastAs(n, p) ==
  LET hits == {i \in p..Len(n) :
                 /\ IsSpace(Ch(n, i))
                 /\ MatchAt(n, "as", SkipSpaces(n, i))
                 /\ SkipSpaces(n, SkipSpaces(n, i) + 2) > SkipSpaces(n, i) + 2}
  IN  IF hits = {} THEN SubSeq(n, p, Len(n))
      ELSE AfterLastAs(n, SkipSpaces(n, SkipSpaces(n, Min(hits)) + 2))

\* m[1].split(",").map(n => n.trim().split(/\s+as\s+/).pop().trim()).filter(Boolean)
ImportedNames(list) ==
  LET parts == Split(list, ",")
  IN  FilterNonEmpty([k \in 1..Len(parts) |-> Trim(AfterLastAs(Trim(parts[k]), 1))])

\* /import\s+(?:type\s+)?\{([^}]+)\}\s+from\s+['"]([^'"]*)['"]/ matched at i
NamedImportAt(text, i) ==
  LET at(b) ==
        LET c == Min({j \in (b + 1)..(Len(text) + 1) :
                        j = Len(text) + 1 \/ Ch(text, j) = "}"})
        IN  Let(FromClauseAt(text, c + 1), LAMBDA from :
              IF /\ Ch(text, b) = "{"
                 /\ c <= Len(text)
                 /\ c > b + 1
                 /\ from.ok
              THEN [ok |-> TRUE, names |-> ImportedNames(SubSeq(text, b + 1, c - 1)),
                    specifier |-> from.specifier, end |-> from.end]
              ELSE NoMatch)
      starts == AfterOptionalType(text, AfterImport(text, i))
  IN  FirstOk([k \in 1..Len(starts) |-> at(starts[k])])

\* /import\s+(?:type\s+)?([A-Za-z_$][A-Za-z0-9_$]*)\s+from\s+['"]([^'"]*)['"]/
\* matched at i
DefaultImportAt(text, i) ==
  LET at(b) ==
        LET c == RunIdPart(text, b)
        IN  Let(FromClauseAt(text, c), LAMBDA from :
              IF IsIdStart(Ch(text, b)) /\ from.ok
              THEN [ok |-> TRUE, names |-> <<SubSeq(text, b, c - 1)>>,
                    specifier |-> from.specifier, end |-> from.end]
              ELSE NoMatch)
      starts == AfterOptionalType(text, AfterImport(text, i))
  IN  FirstOk([k \in 1..Len(starts) |-> at(starts[k])])

\* the records one match contributes
ImportRecords(m, bindingsDir) ==
  IF specifierContainsBindings(m.specifier, bindingsDir)
  THEN [k \in 1..Len(m.names) |->
          [localName |-> m.names[k], isNamespace |-> TRUE,
           specifier |-> m.specifier]]
  ELSE <<>>

\* while ((m = regex.exec(text)) !== null) for the three expressions, which
\* kind selects, from position from on
RECURSIVE ExecAll(_, _, _, _)
ExecAll(kind, text, bindingsDir, from) ==
  LET at(i) == IF kind = "ns" THEN NsImportAt(text, i)
               ELSE IF kind = "named" THEN NamedImportAt(text, i)
               ELSE DefaultImportAt(text, i)
  IN  Let({i \in from..Len(text) : MatchAt(text, "import", i) /\ at(i).ok},
          LAMBDA hits :
        IF hits = {} THEN <<>>
        ELSE Let(at(Min(hits)), LAMBDA m :
               ImportRecords(m, bindingsDir)
                 \o ExecAll(kind, text, bindingsDir, m.end)))

\* the three expressions in the order parseBindingsImports runs them
ImportKinds == <<"ns", "named", "default">>

parseBindingsImports(text, bindingsDir) ==
  Let([k \in 1..Len(ImportKinds) |-> ExecAll(ImportKinds[k], text, bindingsDir, 1)],
      LAMBDA results : results[1] \o results[2] \o results[3])

(***************************************************************************)
(* The CodeLens provider (wailsCodeLensProvider).                          *)
(***************************************************************************)
\* the extensions resolveBindingsSpecifier probes, in order
ProbedExtensions == <<"/index.js", "/index.ts", ".js", ".ts">>

resolveBindingsSpecifier(d, fsPath, specifier) ==
  Let(PathResolve(PathDirname(fsPath), specifier), LAMBDA resolved :
    IF \E ext \in {".js", ".ts", ".mjs", ".mts"} : EndsWith(resolved, ext)
    THEN resolved
    ELSE Let({k \in 1..Len(ProbedExtensions) :
                DiskExists(d, resolved \o ProbedExtensions[k])}, LAMBDA found :
           IF found = {} THEN resolved
           ELSE resolved \o ProbedExtensions[Min(found)]))

\* `${escapeRegExp(localName)}\.([A-Za-z_$][A-Za-z0-9_$]*)\s*\(` matched at
\* position p of the line
NsCallAt(line, localName, p) ==
  LET a == p + Len(localName)
      b == RunIdPart(line, a + 1)
  IN  IF /\ MatchAt(line, localName, p)
         /\ Ch(line, a) = "."
         /\ IsIdStart(Ch(line, a + 1))
         /\ Ch(line, SkipSpaces(line, b)) = "("
      THEN [ok |-> TRUE, method |-> SubSeq(line, a + 1, b - 1)]
      ELSE NoMatch

\* nsRegex.exec(lineText): the leftmost match
NsCallIn(line, localName) ==
  Let({p \in 1..Len(line) : NsCallAt(line, localName, p).ok}, LAMBDA hits :
    IF hits = {} THEN NoMatch ELSE NsCallAt(line, localName, Min(hits)))

\* `\b${escapeRegExp(localName)}\s*\(` matches somewhere in the line
CallIn(line, localName) ==
  {p \in 1..Len(line) :
     /\ MatchAt(line, localName, p)
     /\ IsWord(Ch(line, p - 1)) # IsWord(Ch(localName, 1))
     /\ Ch(line, SkipSpaces(line, p + Len(localName))) = "("}

\* the lens the imports put on line i, if any: the loop over the imports
\* with seenLines, which lets the first import with a call on the line win
LensOnLine(d, fsPath, line, i, imports) ==
  LET calls(k) == IF imports[k].isNamespace
                  THEN NsCallIn(line, imports[k].localName).ok
                  ELSE CallIn(line, imports[k].localName) # {}
  IN  Let({k \in 1..Len(imports) : calls(k)}, LAMBDA with :
        IF with = {} THEN <<>>
        ELSE
          Let(imports[Min(with)], LAMBDA imp :
          Let(resolveBindingsSpecifier(d, fsPath, imp.specifier), LAMBDA bindingUri :
            IF imp.isNamespace
            THEN
              Let(NsCallIn(line, imp.localName).method, LAMBDA methodName :
              Let(IndexOfFrom(line, methodName,
                              Max({0, IndexOf(line, imp.localName)})),
                  LAMBDA methodIndex :
                IF methodIndex < 0 THEN <<>>
                ELSE <<[line |-> i, start |-> methodIndex,
                        end |-> methodIndex + Len(methodName),
                        title |-> "Go to Go: " \o imp.localName \o "." \o methodName,
                        bindingUri |-> bindingUri,
                        symbolName |-> methodName]>>))
            ELSE
              Let(Min(CallIn(line, imp.localName)) - 1, LAMBDA col :
                <<[line |-> i, start |-> col, end |-> col,
                   title |-> "Go to Go: " \o imp.localName,
                   bindingUri |-> bindingUri,
                   symbolName |-> imp.localName]>>))))

RECURSIVE Concat(_)
Concat(seqs) ==
  IF Len(seqs) = 0 THEN <<>> ELSE Head(seqs) \o Concat(Tail(seqs))

\* the lines of a document: document.lineAt(i).text
DocumentLines(text) ==
  LET lines == Split(text, "\n")
  IN  [i \in 1..Len(lines) |->
         IF EndsWith(lines[i], "\r")
         THEN SubSeq(lines[i], 1, Len(lines[i]) - 1) ELSE lines[i]]

lensesForUserCode(d, fsPath, text, bindingsDir) ==
  Let(parseBindingsImports(text, bindingsDir), LAMBDA imports :
    IF Len(imports) = 0 THEN <<>>
    ELSE Let(DocumentLines(text), LAMBDA lines :
           Concat([i \in 1..Len(lines) |->
                     LensOnLine(d, fsPath, lines[i], i - 1, imports)])))

\* /^export\s+function\s+([A-Za-z_$][A-Za-z0-9_$]*)\s*\(/gm matched at p
ExportFunctionAt(text, p) ==
  LET a == p + Len("export")
      b == SkipSpaces(text, a)
      c == b + Len("function")
      e == SkipSpaces(text, c)
      f == RunIdPart(text, e)
      g == SkipSpaces(text, f)
  IN  IF /\ p = 1 \/ Ch(text, p - 1) \in {"\n", "\r"}
         /\ MatchAt(text, "export", p)
         /\ b > a
         /\ MatchAt(text, "function", b)
         /\ e > c
         /\ IsIdStart(Ch(text, e))
         /\ Ch(text, g) = "("
      THEN [ok |-> TRUE, name |-> SubSeq(text, e, f - 1), end |-> g + 1]
      ELSE NoMatch

\* document.positionAt(offset).line for the 1-based position p
LineOfPosition(text, p) == Cardinality({i \in 1..(p - 1) : Ch(text, i) = "\n"})

\* while ((match = regex.exec(text)) !== null), from position from on
RECURSIVE ExportLenses(_, _, _)
ExportLenses(fsPath, text, from) ==
  Let({p \in from..Len(text) : ExportFunctionAt(text, p).ok}, LAMBDA hits :
    IF hits = {} THEN <<>>
    ELSE Let(ExportFunctionAt(text, Min(hits)), LAMBDA m :
           <<[line |-> LineOfPosition(text, Min(hits)), start |-> 0, end |-> 0,
              title |-> "Go to Go implementation",
              bindingUri |-> fsPath, symbolName |-> m.name]>>
             \o ExportLenses(fsPath, text, m.end)))

lensesForBindingsFile(fsPath, text) == ExportLenses(fsPath, text, 1)

\* vscode.workspace.getWorkspaceFolder(uri) for a file path
GetWorkspaceFolder(fsPath) ==
  IF \E r \in Roots : StartsWith(fsPath, r \o "/")
  THEN CHOOSE r \in Roots : StartsWith(fsPath, r \o "/")
  ELSE Undefined

\* the lenses of a document once the bindings directory is known
LensesFor(d, fsPath, text, workspaceFolder, bindingsDir) ==
  IF /\ isWailsBindingsFile(text)
     /\ isInsideBindingsDir(fsPath, workspaceFolder, bindingsDir)
  THEN lensesForBindingsFile(fsPath, text)
  ELSE lensesForUserCode(d, fsPath, text, bindingsDir)

\* user code importing a service and calling a method of it on line 2
GreetDocument(specifier) ==
  "import { GreetService } from \"" \o specifier \o "\";\n\n"
    \o "GreetService.Greet(\"x\");\n"

\* the specifiers of the model's user code
Specifiers == {"../bindings/changeme", "../gen/bindings/changeme", "./api"}

UserCodePath == WorkspaceFolders[1] \o "/frontend/src/app.js"

\* the documents a lens request comes for: user code, a generated bindings
\* file, and a file outside the workspace
LensDocuments ==
  {<<UserCodePath, GreetDocument(sp)>> : sp \in Specifiers}
    \cup {<<WorkspaceFolders[1] \o "/" \o BindingsPackageDir \o "/greetservice.js",
            GreetServiceJs>>,
          <<"/tmp/scratch.js", GreetDocument("../bindings/changeme")>>}

\* provideCodeLenses(document): the lenses, the cache it leaves, the Taskfiles
\* it read and the bindings directory it worked with
provideCodeLenses(c, fs, m, d, fsPath, text) ==
  Let(GetWorkspaceFolder(fsPath), LAMBDA workspaceFolder :
    IF workspaceFolder = Undefined
    THEN [ret |-> <<>>, cache |-> m, reads |-> <<>>, bindingsDir |-> Undefined]
    ELSE Let(getBindingsDir(c, fs, m, workspaceFolder), LAMBDA r :
           [ret |-> LensesFor(d, fsPath, text, workspaceFolder, r.ret),
            cache |-> r.cache, reads |-> r.reads, bindingsDir |-> r.ret]))

(***************************************************************************)
(* Go source lookup: the scan of one Go file.                              *)
(***************************************************************************)
\* the characters escapeRegExp puts a backslash before: [.*+?^${}()|[\]\\]
RegExpSpecials ==
  {".", "*", "+", "?", "^", "$", "{", "}", "(", ")", "|", "[", "]", "\\"}

escapeRegExp(s) ==
  Join([i \in 1..Len(s) |->
          IF Ch(s, i) \in RegExpSpecials THEN "\\" \o Ch(s, i) ELSE Ch(s, i)], "")

\* the text a pattern of plain and backslash-escaped characters matches
RECURSIVE EscapedLiteral(_, _)
EscapedLiteral(pattern, i) ==
  IF i > Len(pattern) THEN ""
  ELSE IF Ch(pattern, i) = "\\"
       THEN Ch(pattern, i + 1) \o EscapedLiteral(pattern, i + 2)
       ELSE Ch(pattern, i) \o EscapedLiteral(pattern, i + 1)

\* new RegExp(`^func\s+(\([^)]+\)\s+)?${escaped}\s*\(`).test(line)
FuncRegexTest(line, escaped) ==
  LET name == EscapedLiteral(escaped, 1)
      a == 1 + Len("func")
      b == SkipSpaces(line, a)
      \* the end of the receiver clause \([^)]+\)
      c == Min({j \in (b + 1)..(Len(line) + 1) :
                  j = Len(line) + 1 \/ Ch(line, j) = ")"})
      e == SkipSpaces(line, c + 1)
      nameAt(p) == /\ MatchAt(line, name, p)
                   /\ Ch(line, SkipSpaces(line, p + Len(name))) = "("
  IN  /\ MatchAt(line, "func", 1)
      /\ b > a
      /\ \/ nameAt(b)
         \/ /\ Ch(line, b) = "("
            /\ c <= Len(line)
            /\ c > b + 1
            /\ e > c + 1
            /\ nameAt(e)

\* new RegExp(`^type\s+${escaped}\s+`).test(line)
TypeRegexTest(line, escaped) ==
  LET name == EscapedLiteral(escaped, 1)
      a == 1 + Len("type")
      b == SkipSpaces(line, a)
  IN  /\ MatchAt(line, "type", 1)
      /\ b > a
      /\ MatchAt(line, name, b)
      /\ IsSpace(Ch(line, b + Len(name)))

\* fs.readFileSync(p, "utf-8") succeeds
Readable(d, p) == DiskExists(d, p) /\ d[p] # Unreadable

\* undefined where a Location is expected
NoLocation == [uri |-> Undefined, line |-> -1, character |-> -1]

\* a scan that reports the last matching line
searchGoFileForSymbol_LastMatch(d, goFilePath, symbolName) ==
  IF ~Readable(d, goFilePath) THEN NoLocation
  ELSE
    Let(Split(d[goFilePath], "\n"), LAMBDA lines :
    Let({i \in 1..Len(lines) :
           \/ FuncRegexTest(lines[i], escapeRegExp(symbolName))
           \/ TypeRegexTest(lines[i], escapeRegExp(symbolName))}, LAMBDA hits :
      IF hits = {} THEN NoLocation
      ELSE [uri |-> goFilePath, line |-> Max(hits) - 1,
            character |-> Max({0, IndexOf(lines[Max(hits)], symbolName)})]))

\* the location of the first line of the file that matches, or undefined
searchGoFileForSymbol(d, goFilePath, symbolName) ==
  IF ~Readable(d, goFilePath) THEN NoLocation
  ELSE
    Let(Split(d[goFilePath], "\n"), LAMBDA lines :
    Let(escapeRegExp(symbolName), LAMBDA escaped :
    Let({i \in 1..Len(lines) :
           \/ FuncRegexTest(lines[i], escaped)
           \/ TypeRegexTest(lines[i], escaped)}, LAMBDA hits :
      IF hits = {} THEN NoLocation
      ELSE Let(IndexOf(lines[Min(hits)], symbolName), LAMBDA col :
             [uri |-> goFilePath, line |-> Min(hits) - 1,
              character |-> IF col >= 0 THEN col ELSE 0]))))

(***************************************************************************)
(* Go source lookup: from a bindings file to the Go file.                  *)
(***************************************************************************)
\* the elements of a finite set of numbers in ascending order
Ascending(S) ==
  [k \in 1..Cardinality(S) |->
     CHOOSE i \in S : Cardinality({j \in S : j < i}) = k - 1]

\* path.basename(p).replace(/(\.(d\.ts|js|ts))$/, "")
Stem(fsPath) ==
  LET base == PathBasename(fsPath)
      suffixes == <<".d.ts", ".js", ".ts">>
      found == {k \in 1..Len(suffixes) : EndsWith(base, suffixes[k])}
  IN  IF found = {} THEN base
      ELSE SubSeq(base, 1, Len(base) - Len(suffixes[Min(found)]))

\* new RegExp(`export\s+function\s+${symbolName}\s*\(`).test(content), the
\* symbol being a word of a document: of the characters special in a pattern
\* it can hold only `$`, which asserts the end of the input and so never
\* matches before the `(`
ExportRegexTest(content, symbolName) ==
  /\ ~Includes(symbolName, "$")
  /\ \E p \in 1..Len(content) :
       LET a == p + Len("export")
           b == SkipSpaces(content, a)
           e == SkipSpaces(content, b + Len("function"))
       IN  /\ MatchAt(content, "export", p)
           /\ b > a
           /\ MatchAt(content, "function", b)
           /\ e > b + Len("function")
           /\ MatchAt(content, symbolName, e)
           /\ Ch(content, SkipSpaces(content, e + Len(symbolName))) = "("

\* fs.readdirSync(dir): the names of the files and directories in dir
DirEntries(d, dir) ==
  LET inDir == {i \in 1..Len(DiskListing) :
                  /\ DiskExists(d, DiskListing[i])
                  /\ StartsWith(DiskListing[i], dir \o "/")}
      name(i) == Head(Split(SubSeq(DiskListing[i], Len(dir) + 2,
                                   Len(DiskListing[i])), "/"))
      firsts == {i \in inDir : \A j \in inDir : j < i => name(j) # name(i)}
      order == Ascending(firsts)
  IN  [k \in 1..Len(order) |-> name(order[k])]

\* a resolution that skips only the file index.js
resolveReExportFromIndex_SkipsIndexJsOnly(d, indexPath, symbolName) ==
  Let(PathDirname(indexPath), LAMBDA indexDir :
  Let(DirEntries(d, indexDir), LAMBDA entries :
    LET filePath(k) == PathJoin(indexDir, <<entries[k]>>)
        looked == {k \in 1..Len(entries) :
                     /\ entries[k] # "index.js"
                     /\ EndsWith(entries[k], ".js") \/ EndsWith(entries[k], ".ts")
                     /\ ~EndsWith(entries[k], ".d.ts")}
    IN  Let({k \in looked :
               Let(filePath(k), LAMBDA p :
                 ~Readable(d, p) \/ ExportRegexTest(d[p], symbolName))},
            LAMBDA ends :
          IF ends = {} THEN Null
          ELSE Let(filePath(Min(ends)), LAMBDA p :
                 IF ~Readable(d, p) THEN Null ELSE p))))

resolveReExportFromIndex(d, indexPath, symbolName) ==
  Let(PathDirname(indexPath), LAMBDA indexDir :
  Let(DirEntries(d, indexDir), LAMBDA entries :
    LET filePath(k) == PathJoin(indexDir, <<entries[k]>>)
        \* the entries the loop reads
        looked == {k \in 1..Len(entries) :
                     /\ entries[k] \notin {"index.js", "index.ts", "index.d.ts"}
                     /\ EndsWith(entries[k], ".js") \/ EndsWith(entries[k], ".ts")
                     /\ ~EndsWith(entries[k], ".d.ts")}
    IN  \* those that end the loop: a read that throws, or a file with the export
        Let({k \in looked :
               Let(filePath(k), LAMBDA p :
                 ~Readable(d, p) \/ ExportRegexTest(d[p], symbolName))},
            LAMBDA ends :
          IF ends = {} THEN Null
          ELSE Let(filePath(Min(ends)), LAMBDA p :
                 IF ~Readable(d, p) THEN Null ELSE p))))

findGoModFileFromPath(d, startPath, workspacePath) ==
  Let(AbsoluteSegments(PathDirname(startPath)), LAMBDA segs :
    LET dirAt(k) == "/" \o Join(SubSeq(segs, 1, k), "/")
        \* the directories the loop visits: from the file's upwards, while they
        \* start with the workspace path
        visited == {k \in 0..Len(segs) :
                      \A j \in k..Len(segs) : StartsWith(dirAt(j), workspacePath)}
    IN  Let({k \in visited : DiskExists(d, PathJoin(dirAt(k), <<"go.mod">>))},
            LAMBDA found :
          IF found = {} THEN Null
          ELSE PathJoin(dirAt(Max(found)), <<"go.mod">>)))

\* characters `.` does not match and `$` matches before
LineTerminators == {"\n", "\r"}

\* content.match(/^module\s+(.+)$/m), trimmed; null without a match or when
\* the file cannot be read
parseModuleName(d, goModPath) ==
  LET content == d[goModPath]
      \* the end (exclusive) of the line position p is on
      lineEnd(p) == Min({j \in p..(Len(content) + 1) :
                           j = Len(content) + 1 \/ Ch(content, j) \in LineTerminators})
      \* where (.+) can begin for a match at line start p: after one or more
      \* white-space characters, on a character of a line
      begins(p) == {b \in (p + Len("module") + 1)..Len(content) :
                      /\ \A j \in (p + Len("module"))..(b - 1) : IsSpace(Ch(content, j))
                      /\ Ch(content, b) \notin LineTerminators}
  IN  IF ~Readable(d, goModPath) THEN Null
      ELSE
        Let({p \in 1..Len(content) :
               /\ p = 1 \/ Ch(content, p - 1) \in LineTerminators
               /\ MatchAt(content, "module", p)
               /\ begins(p) # {}}, LAMBDA starts :
          IF starts = {} THEN Null
          \* \s+ takes all it can and gives back only what (.+) needs
          ELSE Let(Max(begins(Min(starts))), LAMBDA b :
                 Trim(SubSeq(content, b, lineEnd(b) - 1))))

\* the first index (from 0) at which the segments of part occur in sequence
\* in segments, -1 when they do not
IndexOfSegments(segments, part) ==
  LET found == {i \in 0..(Len(segments) - Len(part)) :
                  \A j \in 1..Len(part) : segments[i + j] = part[j]}
  IN  IF found = {} THEN -1 ELSE Min(found)

\* whether segments begins with the segments of part
StartsWithSegments(segments, part) ==
  /\ Len(segments) >= Len(part)
  /\ \A i \in 1..Len(part) : segments[i] = part[i]

\* array.slice(from) with from counted from 0
SliceFrom(seq, from) == SubSeq(seq, from + 1, Len(seq))

\* constructGoFilePath: the path, or null; the cache and the Taskfiles read by
\* its getBindingsDir() call
constructGoFilePath(c, fs, m, d, workspacePath, bindingsFilePath, goFileName) ==
  Let(findGoModFileFromPath(d, bindingsFilePath, workspacePath), LAMBDA goModPath :
    IF goModPath = Null THEN [ret |-> Null, cache |-> m, reads |-> <<>>]
    ELSE
      Let(PathDirname(goModPath), LAMBDA projectRoot :
      Let(parseModuleName(d, goModPath), LAMBDA moduleName :
        IF moduleName = Null \/ moduleName = ""
        THEN [ret |-> Null, cache |-> m, reads |-> <<>>]
        ELSE
          Let(getBindingsDir(c, fs, m, Undefined), LAMBDA bindings :
          Let(Split(PathRelative(projectRoot, bindingsFilePath), PathSep),
              LAMBDA segments :
          Let(Split(bindings.ret, "/"), LAMBDA bindingsSegments :
          Let(IndexOfSegments(segments, bindingsSegments), LAMBDA bindingsIndex :
          \* segments.slice(bindingsIndex + bindingsSegments.length, -1)
          Let(SubSeq(segments, bindingsIndex + Len(bindingsSegments) + 1,
                     Len(segments) - 1), LAMBDA packageSegments :
          Let(Split(moduleName, "/"), LAMBDA moduleSegments :
          Let(StartsWithSegments(packageSegments, moduleSegments),
              LAMBDA isOwnModule :
            LET firstSegment == packageSegments[1]
                result(path) ==
                  [ret |-> path, cache |-> bindings.cache, reads |-> bindings.reads]
            IN  IF bindingsIndex = -1 THEN result(Null)
                ELSE IF Len(packageSegments) = 0 THEN result(Null)
                ELSE IF ~isOwnModule /\ Includes(firstSegment, ".")
                  THEN result(Null)
                ELSE IF isOwnModule
                  THEN Let(SliceFrom(packageSegments, Len(moduleSegments)),
                           LAMBDA subPath :
                         IF Len(subPath) = 0 THEN result(Null)
                         ELSE result(PathJoin(projectRoot,
                                              subPath \o <<goFileName>>)))
                ELSE IF \/ firstSegment = PathBasename(moduleName)
                        \/ firstSegment = moduleName
                  THEN result(PathJoin(projectRoot,
                                       SliceFrom(packageSegments, 1)
                                         \o <<goFileName>>))
                ELSE result(PathJoin(projectRoot,
                                     packageSegments \o <<goFileName>>))))))))))))

\* the directories findGoDefinition always leaves out of its search
ExcludedDirs == <<"node_modules", ".direnv", "vendor">>

\* vscode.workspace.findFiles(`**/${goFileName}` under the folder, excluding
\* {**/node_modules/**,**/.direnv/**,**/vendor/**,**/${bindingsDir}/**}): the
\* files found, in listing order
FindFiles(d, workspaceFolder, goFileName, bindingsDir) ==
  Let([i \in 1..Len(DiskListing) |->
         Split(PathRelative(workspaceFolder, DiskListing[i]), "/")], LAMBDA rel :
    LET \* the path lies below a directory with these segments
        below(i, dirSegments) ==
          \E k \in 0..(Len(rel[i]) - Len(dirSegments) - 1) :
            \A j \in 1..Len(dirSegments) : rel[i][k + j] = dirSegments[j]
    IN  Let(Ascending({i \in 1..Len(DiskListing) :
                  /\ DiskExists(d, DiskListing[i])
                  /\ StartsWith(DiskListing[i], workspaceFolder \o "/")
                  /\ PathBasename(DiskListing[i]) = goFileName
                  /\ \A x \in 1..Len(ExcludedDirs) : ~below(i, <<ExcludedDirs[x]>>)
                  /\ ~below(i, Split(bindingsDir, "/"))}), LAMBDA order :
          [k \in 1..Len(order) |-> DiskListing[order[k]]]))

\* a loop over the candidates that keeps the last location found instead of
\* returning the first
RECURSIVE ScanCandidates_LastMatch(_, _, _, _, _)
ScanCandidates_LastMatch(d, candidates, k, symbolName, scanned) ==
  IF k > Len(candidates) THEN [ret |-> NoLocation, scanned |-> scanned]
  ELSE Let(searchGoFileForSymbol(d, candidates[k], symbolName), LAMBDA loc :
       Let(ScanCandidates_LastMatch(d, candidates, k + 1, symbolName,
                                    IF Readable(d, candidates[k])
                                    THEN Append(scanned, candidates[k])
                                    ELSE scanned), LAMBDA rest :
         IF rest.ret # NoLocation \/ loc = NoLocation THEN rest
         ELSE [ret |-> loc, scanned |-> rest.scanned]))

\* the loop over the candidates of the search from the k-th on: the first
\* location found, and the files scanned
RECURSIVE ScanCandidates(_, _, _, _, _)
ScanCandidates(d, candidates, k, symbolName, scanned) ==
  IF k > Len(candidates) THEN [ret |-> NoLocation, scanned |-> scanned]
  ELSE Let(searchGoFileForSymbol(d, candidates[k], symbolName), LAMBDA loc :
       Let(IF Readable(d, candidates[k])
           THEN Append(scanned, candidates[k]) ELSE scanned, LAMBDA now :
         IF loc # NoLocation THEN [ret |-> loc, scanned |-> now]
         ELSE ScanCandidates(d, candidates, k + 1, symbolName, now)))

\* a lookup that reports the constructed path without looking into the file
findGoDefinition_Unverified(c, fs, m, d, workspaceFolder, bindingPath, symbolName) ==
  Let(constructGoFilePath(c, fs, m, d, workspaceFolder, bindingPath,
                          Stem(bindingPath) \o ".go"), LAMBDA direct :
    [ret |-> IF direct.ret = Null THEN NoLocation
             ELSE [uri |-> direct.ret, line |-> 0, character |-> 0],
     cache |-> direct.cache, reads |-> direct.reads, scanned |-> <<>>,
     findFiles |-> FALSE])

\* findGoDefinition: the location or undefined, the cache it leaves, the
\* Taskfiles it read and the Go files it scanned
RECURSIVE findGoDefinition(_, _, _, _, _, _, _)
findGoDefinition(c, fs, m, d, workspaceFolder, bindingPath, symbolName) ==
  Let(Stem(bindingPath), LAMBDA stem :
    IF stem = "index"
    THEN
      Let(resolveReExportFromIndex(d, bindingPath, symbolName),
          LAMBDA actualBindingPath :
        IF actualBindingPath # Null
        THEN findGoDefinition(c, fs, m, d, workspaceFolder,
                              actualBindingPath, symbolName)
        ELSE [ret |-> NoLocation, cache |-> m, reads |-> <<>>, scanned |-> <<>>,
              findFiles |-> FALSE])
    ELSE
      Let(stem \o ".go", LAMBDA goFileName :
      Let(constructGoFilePath(c, fs, m, d, workspaceFolder, bindingPath,
                              goFileName), LAMBDA direct :
      Let(direct.ret # Null /\ DiskExists(d, direct.ret), LAMBDA directExists :
      Let(IF directExists
          THEN searchGoFileForSymbol(d, direct.ret, symbolName)
          ELSE NoLocation, LAMBDA directLoc :
        IF directLoc # NoLocation
        THEN [ret |-> directLoc, cache |-> direct.cache, reads |-> direct.reads,
              scanned |-> <<direct.ret>>, findFiles |-> FALSE]
        ELSE
          Let(PathBasename(PathDirname(bindingPath)), LAMBDA parentDirName :
          \* the else branch: the parent directory's name as the file name
          Let(IF ~directExists /\ parentDirName # stem
              THEN constructGoFilePath(c, fs, direct.cache, d, workspaceFolder,
                                       bindingPath, parentDirName \o ".go")
              ELSE [ret |-> Null, cache |-> direct.cache, reads |-> <<>>],
              LAMBDA fallback :
          Let(fallback.ret # Null /\ DiskExists(d, fallback.ret),
              LAMBDA fallbackExists :
          Let(IF fallbackExists
              THEN searchGoFileForSymbol(d, fallback.ret, symbolName)
              ELSE NoLocation, LAMBDA fallbackLoc :
            IF fallbackLoc # NoLocation
            THEN [ret |-> fallbackLoc, cache |-> fallback.cache,
                  reads |-> direct.reads \o fallback.reads,
                  scanned |-> <<fallback.ret>>, findFiles |-> FALSE]
            ELSE
              \* the search of the workspace for files of the name
              Let(getBindingsDir(c, fs, fallback.cache, workspaceFolder),
                  LAMBDA bindings :
              Let(FindFiles(d, workspaceFolder, goFileName, bindings.ret),
                  LAMBDA candidates :
              Let(ScanCandidates(d, candidates, 1, symbolName,
                    IF directExists /\ Readable(d, direct.ret)
                      THEN <<direct.ret>>
                    ELSE IF fallbackExists /\ Readable(d, fallback.ret)
                      THEN <<fallback.ret>>
                    ELSE <<>>), LAMBDA searched :
                [ret |-> searched.ret, cache |-> bindings.cache,
                 reads |-> direct.reads \o fallback.reads \o bindings.reads,
                 scanned |-> searched.scanned, findFiles |-> TRUE]))))))))))))

\* a provider's way to a Go location: the bindings directory of the folder,
\* looked up by getBindingsDir or by getFullBindingsPath, then findGoDefinition
ResolutionPipeline(first, c, fs, m, d, workspaceFolder, bindingPath, symbolName) ==
  Let(IF first = "getBindingsDir"
      THEN getBindingsDir(c, fs, m, workspaceFolder)
      ELSE getFullBindingsPath(c, fs, m, workspaceFolder), LAMBDA bindings :
  Let(findGoDefinition(c, fs, bindings.cache, d, workspaceFolder,
                       bindingPath, symbolName), LAMBDA found :
    [dir |-> bindings.ret, ret |-> found.ret, cache |-> found.cache,
     reads |-> bindings.reads \o found.reads]))

(***************************************************************************)
(* State.                                                                  *)
(***************************************************************************)
VARIABLES
  config,   \* the three assigned values of wails.bindingsPath
  files,    \* files[root][path]: content of a Taskfile of the root, or Absent
  cache,    \* taskfileBindingsCache
  disk,     \* disk[path]: content of a source file of the workspace, or Absent
  last,     \* the last call made: operation, arguments, result, number of
            \* Taskfiles read, and whether it directly followed an invalidation
  isResolving,  \* WailsDefinitionProvider.isResolving
  requests      \* requests[id]: a provideDefinition request and where it is

vars == <<config, files, cache, disk, last, isResolving, requests>>

\* the provideDefinition requests of a session
MaxRequests == 2

RequestIds == 1..MaxRequests

\* a request the editor has not made
NoRequest ==
  [pc |-> "idle", document |-> "", word |-> "", definitions |-> <<>>,
   target |-> Null, cancelled |-> FALSE, cancelledAt |-> "",
   ret |-> NoLocation, scanned |-> <<>>]

\* the definition provider as constructed, with no request made
ProviderIdle ==
  /\ isResolving = FALSE
  /\ requests = [id \in RequestIds |-> NoRequest]

\* the values the model assigns to the setting, one per scope
ScopeValue ==
  [globalValue |-> "api", workspaceValue |-> "bindings",
   workspaceFolderValue |-> "frontend/src/lib/bindings"]

ConfigScopes == {"globalValue", "workspaceValue", "workspaceFolderValue"}

\* the Taskfile contents the model writes
TaskfileContents == {TaskfileFlag, TaskfileGenerates, TaskfileOther}

NoCall ==
  [op |-> "none", root |-> Undefined, ret |-> Undefined, reads |-> 0,
   afterInvalidate |-> FALSE]

EmptyDir == [p \in TaskfilePaths |-> Absent]

\* everything but the call under way is as after activation
Activated ==
  /\ config = [sc \in ConfigScopes |-> Undefined]
  /\ files = [r \in Roots |-> EmptyDir]
  /\ cache = EmptyCache
  /\ ProviderIdle
  /\ disk = InitialDisk

Init == Activated /\ last = NoCall

(***************************************************************************)
(* Operations.                                                             *)
(***************************************************************************)
\* a provider calls getBindingsDir(workspaceFolder)
GetBindingsDir(workspaceFolder) ==
  \E r \in {getBindingsDir(config, files, cache, workspaceFolder)} :
      /\ cache' = r.cache
      /\ last' = [op |-> "getBindingsDir", root |-> WsPath(workspaceFolder),
                  ret |-> r.ret, reads |-> Len(r.reads),
                  afterInvalidate |-> last.op = "invalidateTaskfileCache"]
      /\ UNCHANGED <<config, files, disk, isResolving, requests>>

\* a provider calls getFullBindingsPath(workspaceFolder)
GetFullBindingsPath(workspaceFolder) ==
  \E r \in {getFullBindingsPath(config, files, cache, workspaceFolder)} :
      /\ cache' = r.cache
      /\ last' = [op |-> "getFullBindingsPath", root |-> WsPath(workspaceFolder),
                  ret |-> r.ret, reads |-> Len(r.reads),
                  afterInvalidate |-> last.op = "invalidateTaskfileCache"]
      /\ UNCHANGED <<config, files, disk, isResolving, requests>>

\* invalidateTaskfileCache(workspacePath) for one root
InvalidateRoot(workspacePath) ==
  /\ cache' = invalidateTaskfileCache(cache, workspacePath)
  /\ last' = [op |-> "invalidateTaskfileCache", root |-> workspacePath,
              ret |-> Undefined, reads |-> 0, afterInvalidate |-> FALSE]
  /\ UNCHANGED <<config, files, disk, isResolving, requests>>

\* the user assigns or removes the setting in one scope
SetBindingsPath(scope, assigned) ==
  /\ config' = [config EXCEPT ![scope] =
                  IF assigned THEN ScopeValue[scope] ELSE Undefined]
  /\ UNCHANGED <<files, cache, disk, last, isResolving, requests>>

\* a Taskfile of a root is created, changed or deleted on disk
WriteTaskfile(root, path, content) ==
  LET after == [files EXCEPT ![root][path] = content]
      present == {rp \in Roots \X TaskfilePaths : after[rp[1]][rp[2]] # Absent}
  IN  /\ files[root][path] # content
      /\ Cardinality(present) <= MaxTaskfiles
      /\ files' = after
      /\ UNCHANGED <<config, cache, disk, last, isResolving, requests>>

\* taskfileWatcher.onDidChange / onDidCreate / onDidDelete: the watcher reports
\* a change of some file matching **/Taskfile.{yml,yaml}, which need not be one
\* of the four files detection reads, some time after the change
TaskfileWatcherFires ==
  /\ cache' = invalidateTaskfileCache(cache, Undefined)
  /\ last' = [op |-> "invalidateTaskfileCache", root |-> Undefined,
              ret |-> Undefined, reads |-> 0, afterInvalidate |-> FALSE]
  /\ UNCHANGED <<config, files, disk, isResolving, requests>>

\* a workspace of several roots; the setting is assigned, if at all, in the
\* workspace scope
Next ==
  \/ \E wf \in Roots \cup {Undefined} : GetBindingsDir(wf)
  \/ \E wf \in Roots \cup {Undefined} : GetFullBindingsPath(wf)
  \/ \E r \in Roots : InvalidateRoot(r)
  \/ \E b \in BOOLEAN : SetBindingsPath("workspaceValue", b)
  \/ \E r \in Roots, p \in TaskfilePaths, c \in TaskfileContents \cup {Absent} :
       WriteTaskfile(r, p, c)
  \/ TaskfileWatcherFires

Spec == Init /\ [][Next]_vars

\* the first root alone, with the setting assigned in any of its scopes
NextSettings ==
  \/ \E wf \in {WorkspaceFolders[1], Undefined} : GetBindingsDir(wf)
  \/ \E wf \in {WorkspaceFolders[1], Undefined} : GetFullBindingsPath(wf)
  \/ \E sc \in ConfigScopes, b \in BOOLEAN : SetBindingsPath(sc, b)
  \/ \E p \in TaskfilePaths, c \in TaskfileContents \cup {Absent} :
       WriteTaskfile(WorkspaceFolders[1], p, c)
  \/ TaskfileWatcherFires

SpecSettings == Init /\ [][NextSettings]_vars

(***************************************************************************)
(* Properties of the bindings directory resolver.                          *)
(***************************************************************************)
\* the arguments getBindingsDir is called with
FolderArgs == Roots \cup {Undefined}

\* what detection yields for a root from the files as they are now
DetectedNow(root) == Detected[files[root]].ret

\* the root's only Taskfile has content c
OnlyTaskfile(root, c) ==
  \E p \in TaskfilePaths :
    /\ files[root][p] = c
    /\ \A q \in TaskfilePaths \ {p} : files[root][q] = Absent

\* C1: whenever the setting is explicitly set, getBindingsDir returns the
\* configured value whatever the Taskfiles and the cache hold, reads no file
\* and leaves the cache as it is.
C1_ExplicitSettingWins ==
  [][\A wf \in FolderArgs :
       (GetBindingsDir(wf) /\ IsExplicitlySet(config)) =>
         /\ last'.ret = ConfigGet(config)
         /\ last'.reads = 0
         /\ cache' = cache]_vars

\* a call answered from the setting although the cache holds another directory
\* for the root and the root's Taskfile names a third one
C1_Witness ==
  /\ last.op = "getBindingsDir"
  /\ IsExplicitlySet(config)
  /\ last.ret = ConfigGet(config)
  /\ last.root \in DOMAIN cache
  /\ Truthy(cache[last.root])
  /\ Truthy(DetectedNow(last.root))
  /\ Cardinality({last.ret, cache[last.root], DetectedNow(last.root)}) = 3

C3_NoNullCached == \A r \in DOMAIN cache : cache[r] # Null

\* C4: the getBindingsDir call that follows a Taskfile notification, with the
\* setting not set, reads the Taskfiles again and returns what they yield now
\* (the default when they yield nothing).
C4_RereadAfterNotification ==
  [][\A wf \in FolderArgs :
       (/\ GetBindingsDir(wf)
        /\ ~IsExplicitlySet(config)
        /\ last.op = "invalidateTaskfileCache"
        /\ last.root = Undefined) =>
         /\ last'.ret = IF Truthy(DetectedNow(WsPath(wf)))
                        THEN DetectedNow(WsPath(wf)) ELSE ConfigGet(config)
         /\ last'.reads = Len(Detected[files[WsPath(wf)]].reads)
         /\ last'.reads > 0 <=> \E p \in TaskfilePaths : files[WsPath(wf)][p] # Absent]_vars

\* a call right after a notification that read the root's Taskfile and
\* returned the directory it names
C4_Witness ==
  /\ last.op = "getBindingsDir"
  /\ last.afterInvalidate
  /\ ~IsExplicitlySet(config)
  /\ last.reads > 0
  /\ last.ret = "frontend/bindings"
  /\ OnlyTaskfile(last.root, TaskfileGenerates)

(***************************************************************************)
(* The import parser on documents.                                         *)
(***************************************************************************)
\* the values getBindingsDir hands to the parser: directory names and the
\* relative paths detection and the setting yield
BindingsDirValues ==
  {DefaultBindingsPath, "gen", "frontend/bindings", "frontend/gen/bindings"}

Quotes == {"\"", "'"}

\* import { A, B as C } from "<specifier>", with `import type` when typeOnly
NamedImportStatement(typeOnly, specifier, q) ==
  "import " \o (IF typeOnly THEN "type " ELSE "")
    \o "{ A, B as C } from " \o q \o specifier \o q

\* what precedes and follows the statement in the documents of the model
TextBefore ==
  {"", "// app\n", "import * as Svc from \"../gen/svc\";\nimport Api from './api';\n"}

TextAfter == {"", ";\nC.Greet(A.Name());\n"}

ImportDocuments ==
  {pre \o NamedImportStatement(t, dir \o "/pkg", q) \o post :
     pre \in TextBefore, t \in BOOLEAN, dir \in BindingsDirValues,
     q \in Quotes, post \in TextAfter}

\* a provider is about to call parseBindingsImports(document, bindingsDir)
InitImports ==
  /\ Activated
  /\ last \in [op : {"call"}, text : ImportDocuments, bindingsDir : BindingsDirValues]

\* the call parseBindingsImports(document, bindingsDir)
ParseBindingsImports ==
  /\ last.op = "call"
  /\ last' = [op |-> "parseBindingsImports", text |-> last.text,
              bindingsDir |-> last.bindingsDir,
              ret |-> parseBindingsImports(last.text, last.bindingsDir)]
  /\ UNCHANGED <<config, files, cache, disk, isResolving, requests>>

NextImports == ParseBindingsImports

SpecImports == InitImports /\ [][NextImports]_vars

\* the document holds import { A, B as C } from "<bindingsDir>/pkg"
HasNamedImportFrom(text, bindingsDir) ==
  \E t \in BOOLEAN, q \in Quotes :
    Includes(text, NamedImportStatement(t, bindingsDir \o "/pkg", q))

LocalNames(records) == {records[k].localName : k \in 1..Len(records)}

\* C6: for a document containing import { A, B as C } from "<bindingsDir>/pkg"
\* (or the `import type` form), parseBindingsImports returns a record for A and
\* one for C, none for B, each with specifier "<bindingsDir>/pkg".
C6_NamedImportRecords ==
  (last.op = "parseBindingsImports" /\ HasNamedImportFrom(last.text, last.bindingsDir))
    => /\ "A" \in LocalNames(last.ret)
       /\ "C" \in LocalNames(last.ret)
       /\ "B" \notin LocalNames(last.ret)
       /\ \A k \in 1..Len(last.ret) :
            last.ret[k].localName \in {"A", "C"}
              => last.ret[k].specifier = last.bindingsDir \o "/pkg"

(***************************************************************************)
(* The CodeLens provider on documents of the first root.                   *)
(***************************************************************************)
\* the editor asks for the lenses of a document
ProvideCodeLenses(fsPath, text) ==
  \E r \in {provideCodeLenses(config, files, cache, disk, fsPath, text)},
     wsPath \in {GetWorkspaceFolder(fsPath)} :
      /\ cache' = r.cache
      /\ last' = [op |-> "provideCodeLenses", fsPath |-> fsPath, text |-> text,
                  bindingsDir |-> r.bindingsDir,
                  auto |-> /\ ~IsExplicitlySet(config)
                           /\ wsPath \in DOMAIN r.cache
                           /\ r.cache[wsPath] = r.bindingsDir,
                  reads |-> Len(r.reads), ret |-> r.ret]
      /\ UNCHANGED <<config, files, disk, isResolving, requests>>

NextLens ==
  \/ \E doc \in LensDocuments : ProvideCodeLenses(doc[1], doc[2])
  \/ \E b \in BOOLEAN : SetBindingsPath("workspaceValue", b)
  \/ \E p \in TaskfilePaths,
        c \in {TaskfileFlag, TaskfileGenerates, TaskfileFlagPath,
               TaskfileFlagName, Absent} :
       WriteTaskfile(WorkspaceFolders[1], p, c)
  \/ TaskfileWatcherFires

SpecLens == Init /\ [][NextLens]_vars

\* the specifier, imported from the file at fsPath, names a path inside the
\* directory bindingsDir of the file's root
PointsInto(fsPath, specifier, bindingsDir) ==
  StartsWith(PathResolve(PathDirname(fsPath), specifier) \o "/",
             GetWorkspaceFolder(fsPath) \o "/" \o bindingsDir \o "/")

\* C7: when the setting is not set and the bindings directory is the one
\* detected from the Taskfile, provideCodeLenses puts a lens on the call
\* GreetService.Greet( of user code that imports GreetService from a specifier
\* pointing into that directory.
C7_AutoDetectedImportGetsLens ==
  \A sp \in Specifiers :
    (/\ last.op = "provideCodeLenses"
     /\ last.auto
     /\ last.text = GreetDocument(sp)
     /\ GetWorkspaceFolder(last.fsPath) # Undefined
     /\ PointsInto(last.fsPath, sp, last.bindingsDir))
      => \E k \in 1..Len(last.ret) :
           /\ last.ret[k].line = 2
           /\ last.ret[k].symbolName = "Greet"

(***************************************************************************)
(* isInsideBindingsDir on file paths.                                      *)
(***************************************************************************)
\* the directory and file names paths are made of
SegmentNames == {"bindings", "my-bindings-extra", "src", "frontend", "main.js"}

\* paths have at most this many segments below their base directory
MaxSegments == 3

SegmentSeqs == UNION {[1..n -> SegmentNames] : n \in 1..MaxSegments}

\* the directories files are in: the project root and one outside it
BaseDirs == {WorkspaceFolders[1], "/srv/bindings"}

\* a provider is about to call isInsideBindingsDir(filePath, root, bindingsDir)
\* for the file with the given segments below the base directory
InitInside ==
  /\ Activated
  /\ last \in [op : {"call"}, base : BaseDirs, segments : SegmentSeqs,
               bindingsDir : BindingsDirValues]

\* the call isInsideBindingsDir(filePath, workspacePath, bindingsDir)
IsInsideBindingsDir ==
  LET filePath == last.base \o "/" \o Join(last.segments, "/")
  IN  /\ last.op = "call"
      /\ last' = [op |-> "isInsideBindingsDir", base |-> last.base,
                  segments |-> last.segments, filePath |-> filePath,
                  bindingsDir |-> last.bindingsDir,
                  ret |-> isInsideBindingsDir(filePath, WorkspaceFolders[1],
                                              last.bindingsDir)]
      /\ UNCHANGED <<config, files, cache, disk, isResolving, requests>>

NextInside == IsInsideBindingsDir

SpecInside == InitInside /\ [][NextInside]_vars

\* the segments of the path from the project root to the file, as the file
\* was put together
RelativeSegments(base, segments) ==
  IF base = WorkspaceFolders[1] THEN segments
  ELSE [i \in 1..Len(FilterNonEmpty(Split(WorkspaceFolders[1], "/"))) |-> ".."]
         \o FilterNonEmpty(Split(base, "/")) \o segments

\* C8: for a bindings dir of one segment, isInsideBindingsDir is true iff some
\* segment of the file's path relative to the root equals the bindings dir; a
\* path with my-bindings-extra but no bindings segment does not match
\* "bindings", and src/main.js is rejected.
C8_SegmentExact ==
  (last.op = "isInsideBindingsDir" /\ ~Includes(last.bindingsDir, "/"))
    => /\ last.ret <=> SeqIncludes(RelativeSegments(last.base, last.segments),
                                   last.bindingsDir)
       /\ (/\ last.bindingsDir = "bindings"
           /\ last.base = WorkspaceFolders[1]
           /\ ~SeqIncludes(last.segments, "bindings")) => ~last.ret

\* a rejected path that has my-bindings-extra as a directory, and none named
\* bindings
C8_Witness ==
  /\ last.op = "isInsideBindingsDir"
  /\ last.bindingsDir = "bindings"
  /\ last.segments = <<"frontend", "my-bindings-extra", "main.js">>
  /\ last.base = WorkspaceFolders[1]
  /\ ~last.ret

(***************************************************************************)
(* searchGoFileForSymbol on Go files.                                      *)
(***************************************************************************)
\* the names declared and looked for: one name, a name it is a prefix of,
\* and the name in another case
GoNames == {"Greet", "GreetAll", "greet"}

\* the kinds of line a Go file of the model is made of
DeclarationKinds == {"method", "ownMethod", "func", "type"}

OtherKinds == {"comment", "call"}

\* the text of a line of a kind for a name
GoLine(kind, name) ==
  CASE kind = "method" -> "func (s *FooService) " \o name \o "(x int) error {"
    [] kind = "ownMethod" -> "func (g *" \o name \o "Service) " \o name \o "() {"
    [] kind = "func" -> "func " \o name \o "() {"
    [] kind = "type" -> "type " \o name \o " struct {"
    [] kind = "comment" -> "// func " \o name \o "() is declared elsewhere"
    [] kind = "call" -> "\t" \o name \o "(1)"

GoLineSpecs == [kind : DeclarationKinds \cup OtherKinds, name : GoNames]

\* Go files have at most this many lines
MaxGoLines == 2

GoFileSpecs == UNION {[1..n -> GoLineSpecs] : n \in 1..MaxGoLines}

GoText(lines) == Join([i \in 1..Len(lines) |-> GoLine(lines[i].kind, lines[i].name)], "\n")

ScannedGoFile == WorkspaceFolders[1] \o "/greetservice.go"

\* searchGoFileForSymbol is about to be called for a Go file on disk, made of
\* the lines last.lines
InitSearch ==
  /\ config = [sc \in ConfigScopes |-> Undefined]
  /\ files = [r \in Roots |-> EmptyDir]
  /\ cache = EmptyCache
  /\ ProviderIdle
  /\ \E lines \in GoFileSpecs, name \in GoNames :
       /\ disk = [InitialDisk EXCEPT ![ScannedGoFile] = GoText(lines)]
       /\ last = [op |-> "call", lines |-> lines, symbolName |-> name]

\* the call searchGoFileForSymbol(goFileUri, symbolName)
SearchGoFileForSymbol ==
  /\ last.op = "call"
  /\ last' = [op |-> "searchGoFileForSymbol", lines |-> last.lines,
              symbolName |-> last.symbolName,
              ret |-> searchGoFileForSymbol(disk, ScannedGoFile, last.symbolName)]
  /\ UNCHANGED <<config, files, cache, disk, isResolving, requests>>

NextSearch == SearchGoFileForSymbol

SpecSearch == InitSearch /\ [][NextSearch]_vars

\* the lines (from 1) that declare the name, by how the file was made
DeclarationsOf(lines, name) ==
  {i \in 1..Len(lines) : lines[i].kind \in DeclarationKinds /\ lines[i].name = name}

\* C9: searchGoFileForSymbol returns the zero-based index of the first line
\* that starts with a method, function or type declaration of exactly the
\* given name; declarations of a longer name or of the name in another case
\* do not count; without such a line it returns undefined.
C9_FirstDeclarationLine ==
  last.op = "searchGoFileForSymbol"
    => IF DeclarationsOf(last.lines, last.symbolName) = {}
       THEN last.ret = NoLocation
       ELSE /\ last.ret # NoLocation
            /\ last.ret.line = Min(DeclarationsOf(last.lines, last.symbolName)) - 1

\* a file whose first line declares a longer name and whose second line
\* declares the name: the second line is reported
C9_Witness ==
  /\ last.op = "searchGoFileForSymbol"
  /\ last.symbolName = "Greet"
  /\ last.lines = <<[kind |-> "func", name |-> "GreetAll"],
                    [kind |-> "method", name |-> "Greet"]>>
  /\ last.ret # NoLocation
  /\ last.ret.line = 1

\* the zero-based column at which a declaration line of a kind has the
\* declared name
NameColumn(kind, name) ==
  CASE kind = "method" -> Len("func (s *FooService) ")
    [] kind = "ownMethod" -> Len("func (g *" \o name \o "Service) ")
    [] kind = "func" -> Len("func ")
    [] kind = "type" -> Len("type ")

\* C11: the column of a location returned by searchGoFileForSymbol is the
\* zero-based offset of the declared name in the matched line, also for a
\* method whose receiver type has the name in it.
C11_ColumnOfNameToken ==
  (last.op = "searchGoFileForSymbol" /\ last.ret # NoLocation)
    => last.ret.character
         = NameColumn(last.lines[last.ret.line + 1].kind, last.symbolName)

(***************************************************************************)
(* findGoDefinition in a project with Go sources.                          *)
(***************************************************************************)
\* the Go files on disk, as sequences of lines: one that declares Greet on
\* its second line, and one that only has the name in a longer name and a call
GoSources ==
  {<<[kind |-> "comment", name |-> "Greet"], [kind |-> "ownMethod", name |-> "Greet"]>>,
   <<[kind |-> "func", name |-> "GreetAll"], [kind |-> "call", name |-> "Greet"]>>}

\* the lines a Go file on disk was made of
SourceOf(content) == CHOOSE lines \in GoSources : GoText(lines) = content

\* at most this many Go files are on disk
MaxGoFiles == 1

\* what a Go file path of the model can hold
GoFileStates ==
  {g \in [GoFiles(WorkspaceFolders[1]) ->
            {GoText(lines) : lines \in GoSources} \cup {Absent, Unreadable}] :
     Cardinality({p \in GoFiles(WorkspaceFolders[1]) : g[p] # Absent}) <= MaxGoFiles}

\* the disks of the model: the generated bindings, go.mod with one of its
\* contents or missing, and Go files that are missing, readable or unreadable
ProjectDisks ==
  {[p \in DiskPaths |->
      IF p = GoModPath(WorkspaceFolders[1]) THEN goMod
      ELSE IF p \in GoFiles(WorkspaceFolders[1]) THEN g[p]
      ELSE InitialDisk[p]] :
     goMod \in {GoModContent, GoModHosted, Absent}, g \in GoFileStates}

\* the bindings files a lookup starts from
BindingPaths ==
  {WorkspaceFolders[1] \o "/" \o BindingsPackageDir \o "/greetservice.js",
   WorkspaceFolders[1] \o "/" \o BindingsPackageDir \o "/index.js",
   WorkspaceFolders[1] \o "/" \o BindingsPackageDir \o "/pkg/greetservice.js"}

\* the symbols looked up
Symbols == {"Greet", "greet"}

\* findGoDefinition(folder, bindingUri, symbolName)
FindGoDefinition(workspaceFolder, bindingPath, symbolName) ==
  \E r \in {findGoDefinition(config, files, cache, disk, workspaceFolder,
                              bindingPath, symbolName)} :
    /\ cache' = r.cache
    /\ last' = [op |-> "findGoDefinition", root |-> workspaceFolder,
                bindingPath |-> bindingPath, symbolName |-> symbolName,
                ret |-> r.ret, reads |-> Len(r.reads), scanned |-> r.scanned]
    /\ UNCHANGED <<config, files, disk, isResolving, requests>>

\* the project as found by a lookup: its disk, its Taskfile if it has one,
\* and the call a provider or the command is about to make
InitGo ==
  /\ config = [sc \in ConfigScopes |-> Undefined]
  /\ \E c \in {Absent, TaskfileFlagPath} :
       files = [r \in Roots |->
                  IF r = WorkspaceFolders[1]
                  THEN [EmptyDir EXCEPT ![TaskfileNames[1]] = c] ELSE EmptyDir]
  /\ cache = EmptyCache
  /\ ProviderIdle
  /\ disk \in ProjectDisks
  /\ last \in [op : {"call"}, bindingPath : BindingPaths, symbolName : Symbols]

\* the call is made
CallFindGoDefinition ==
  /\ last.op = "call"
  /\ FindGoDefinition(WorkspaceFolders[1], last.bindingPath, last.symbolName)

NextGo == CallFindGoDefinition

SpecGo == InitGo /\ [][NextGo]_vars

\* the Go files of the disk with a declaration of the symbol
FilesDeclaring(d, symbolName) ==
  {p \in DiskPaths :
     /\ EndsWith(p, ".go")
     /\ Readable(d, p)
     /\ DeclarationsOf(SourceOf(d[p]), symbolName) # {}}

\* C10: a location returned by findGoDefinition names a file that exists and
\* was scanned in the call, and a line of it that declares the symbol; when no
\* Go file declares the symbol, no location is returned.
C10_LocationIsVerified ==
  last.op = "findGoDefinition"
    => /\ last.ret # NoLocation
            => /\ Readable(disk, last.ret.uri)
               /\ SeqIncludes(last.scanned, last.ret.uri)
               /\ last.ret.line + 1
                    \in DeclarationsOf(SourceOf(disk[last.ret.uri]), last.symbolName)
       /\ FilesDeclaring(disk, last.symbolName) = {} => last.ret = NoLocation

\* a lookup whose constructed path pkg/greetservice.go does not exist and
\* which returns the declaration found in the root's greetservice.go
C10_Witness ==
  /\ last.op = "findGoDefinition"
  /\ last.bindingPath =
       WorkspaceFolders[1] \o "/" \o BindingsPackageDir \o "/pkg/greetservice.js"
  /\ ~DiskExists(disk, WorkspaceFolders[1] \o "/pkg/greetservice.go")
  /\ last.ret # NoLocation
  /\ last.ret.uri = WorkspaceFolders[1] \o "/greetservice.go"
  /\ last.ret.line = 1

(***************************************************************************)
(* findGoDefinition from a barrel file.                                    *)
(***************************************************************************)
\* a generated file of another service, without a function Greet
OtherServiceJs ==
  "// " \o GeneratedMarker \o ".\n"
    \o "export function Other() {\n  return $Call.ByID(2);\n}\n"

BarrelPath == WorkspaceFolders[1] \o "/" \o BindingsPackageDir \o "/index.js"

\* the files next to the barrel, in the order of the directory listing
BarrelSiblings ==
  <<WorkspaceFolders[1] \o "/" \o BindingsPackageDir \o "/changeme.js",
    WorkspaceFolders[1] \o "/" \o BindingsPackageDir \o "/greetservice.js">>

\* the Go file of the model that declares Greet, for each sibling's name
BarrelGoFiles ==
  <<WorkspaceFolders[1] \o "/changeme.go", WorkspaceFolders[1] \o "/greetservice.go">>

\* the projects a barrel is resolved in: each sibling is a generated file
\* with or without Greet (the first may be missing or unreadable), and each
\* of the two Go files declares Greet or is missing
BarrelDisks ==
  {[p \in DiskPaths |->
      IF p = BarrelSiblings[1] THEN first
      ELSE IF p = BarrelSiblings[2] THEN second
      ELSE IF p = BarrelGoFiles[1] THEN go1
      ELSE IF p = BarrelGoFiles[2] THEN go2
      ELSE IF p = GoModPath(WorkspaceFolders[1]) THEN goMod
      ELSE InitialDisk[p]] :
     first \in {GreetServiceJs, OtherServiceJs, Absent, Unreadable},
     second \in {GreetServiceJs, OtherServiceJs},
     go1 \in {GoLine("func", "Greet"), Absent},
     go2 \in {GoLine("method", "Greet"), Absent},
     goMod \in {GoModContent, Absent}}

InitBarrel ==
  /\ config = [sc \in ConfigScopes |-> Undefined]
  /\ files = [r \in Roots |-> EmptyDir]
  /\ cache = EmptyCache
  /\ ProviderIdle
  /\ disk \in BarrelDisks
  /\ last \in [op : {"call"}, bindingPath : {BarrelPath}, symbolName : Symbols]

\* the lookup of the symbol from the barrel
CallFromBarrel ==
  /\ last.op = "call"
  /\ last.bindingPath = BarrelPath
  /\ FindGoDefinition(WorkspaceFolders[1], BarrelPath, last.symbolName)

NextBarrel == CallFromBarrel

SpecBarrel == InitBarrel /\ [][NextBarrel]_vars

\* the siblings that declare `export function <symbolName>(`
DeclaringSiblings(d, symbolName) ==
  {k \in 1..Len(BarrelSiblings) :
     /\ Readable(d, BarrelSiblings[k])
     /\ ExportRegexTest(d[BarrelSiblings[k]], symbolName)}

\* the result of the lookup made directly on a bindings file of the project
DirectResult(bindingPath, symbolName) ==
  findGoDefinition(config, files, EmptyCache, disk, WorkspaceFolders[1],
                   bindingPath, symbolName).ret

\* C12: the result of findGoDefinition on the barrel is the result of
\* findGoDefinition on a sibling file that declares `export function S(`.
C12_BarrelIsSibling ==
  last.op = "findGoDefinition"
    => \A k \in DeclaringSiblings(disk, last.symbolName) :
         last.ret = DirectResult(BarrelSiblings[k], last.symbolName)

\* the same for the first declaring sibling of the listing, when the files
\* listed before it can be read
C12_BarrelIsFirstSibling ==
  (/\ last.op = "findGoDefinition"
   /\ DeclaringSiblings(disk, last.symbolName) # {}
   /\ \A j \in 1..Min(DeclaringSiblings(disk, last.symbolName)) :
        DiskExists(disk, BarrelSiblings[j]) => Readable(disk, BarrelSiblings[j]))
    => last.ret = DirectResult(BarrelSiblings[Min(DeclaringSiblings(disk, last.symbolName))],
                               last.symbolName)

(***************************************************************************)
(* The resolution pipeline, run again and again.                           *)
(***************************************************************************)
\* the disk of the project: the sources of module changeme with the
\* declaration of Greet in greetservice.go
PipelineDisk ==
  [InitialDisk EXCEPT
     ![WorkspaceFolders[1] \o "/greetservice.go"] =
        GoText(<<[kind |-> "comment", name |-> "Greet"],
                 [kind |-> "ownMethod", name |-> "Greet"]>>)]

InitPipeline ==
  /\ config = [sc \in ConfigScopes |-> Undefined]
  /\ files = [r \in Roots |-> EmptyDir]
  /\ cache = EmptyCache
  /\ ProviderIdle
  /\ disk = PipelineDisk
  /\ last = NoCall

\* the values a run works on besides the disk, which no action here changes
PipelineInputs == [config |-> config, files |-> files]

\* a provider runs the pipeline for a bindings file of the first root
RunPipeline(first, bindingPath, symbolName) ==
  \E r \in {ResolutionPipeline(first, config, files, cache, disk,
                                WorkspaceFolders[1], bindingPath, symbolName)},
     \* this run repeats the run before it, on unchanged inputs
     repeat \in {/\ last.op = "pipeline"
                 /\ last.call = [first |-> first, bindingPath |-> bindingPath,
                                 symbolName |-> symbolName]
                 /\ last.inputs = PipelineInputs} :
  LET call == [first |-> first, bindingPath |-> bindingPath,
               symbolName |-> symbolName]
  IN  /\ cache' = r.cache
      /\ last' = [op |-> "pipeline", call |-> call, inputs |-> PipelineInputs,
                  dir |-> r.dir, ret |-> r.ret, reads |-> Len(r.reads),
                  repeat |-> repeat,
                  cached |-> /\ WorkspaceFolders[1] \in DOMAIN cache
                             /\ Truthy(cache[WorkspaceFolders[1]]),
                  before |-> IF repeat
                             THEN [dir |-> last.dir, ret |-> last.ret,
                                   reads |-> last.reads]
                             ELSE [dir |-> Undefined, ret |-> NoLocation,
                                   reads |-> 0]]
      /\ UNCHANGED <<config, files, disk, isResolving, requests>>

NextPipeline ==
  \/ \E first \in {"getBindingsDir", "getFullBindingsPath"} :
       RunPipeline(first, WorkspaceFolders[1] \o "/" \o BindingsPackageDir
                            \o "/greetservice.js", "Greet")
  \/ \E b \in BOOLEAN : SetBindingsPath("workspaceValue", b)
  \/ \E c \in {TaskfileFlagPath, TaskfileOther, Absent} :
       WriteTaskfile(WorkspaceFolders[1], TaskfileNames[1], c)
  \/ \E c \in {TaskfileFlagPath, Absent} :
       WriteTaskfile(WorkspaceFolders[1], BuildPath(TaskfileNames[1]), c)
  \/ TaskfileWatcherFires

SpecPipeline == InitPipeline /\ [][NextPipeline]_vars

\* C5 as stated: the second of two successive runs of the pipeline on
\* unchanged configuration, Taskfiles and files yields the results of the
\* first and reads no Taskfile.
C5_Idempotent ==
  (last.op = "pipeline" /\ last.repeat)
    => /\ last.dir = last.before.dir
       /\ last.ret = last.before.ret
       /\ last.reads = 0

\* the second run has to look for the directory in the Taskfiles again: it
\* starts with getFullBindingsPath, the setting is not set, and the cache
\* held no directory for the root when the run began
LooksAgain ==
  /\ last.call.first = "getFullBindingsPath"
  /\ ~IsExplicitlySet(last.inputs.config)
  /\ ~last.cached

\* C5, amended: the second of two successive runs on unchanged inputs yields
\* the results of the first; it reads no Taskfile, except that a run starting
\* with getFullBindingsPath reads the root's Taskfiles again when no directory
\* could be detected from them.
C5_IdempotentUnlessUndetected ==
  (last.op = "pipeline" /\ last.repeat)
    => /\ last.dir = last.before.dir
       /\ last.ret = last.before.ret
       /\ last.reads > 0
            <=> /\ LooksAgain
                /\ \E p \in TaskfilePaths :
                      last.inputs.files[WorkspaceFolders[1]][p] # Absent

\* a second run that finds the Go declaration again without reading the
\* Taskfile the first run read
C5_Witness ==
  /\ last.op = "pipeline"
  /\ last.repeat
  /\ last.before.reads > 0
  /\ last.reads = 0
  /\ last.dir = "frontend/bindings"
  /\ last.ret # NoLocation
  /\ last.ret = last.before.ret


(***************************************************************************)
(* The hover provider (WailsHoverProvider), from user code to Go.          *)
(***************************************************************************)
NoHover ==
  [ret |-> NoLocation, cache |-> EmptyCache, reads |-> <<>>, scanned |-> <<>>,
   findFiles |-> FALSE]

\* createHover: the hover is made of the location findGoDefinition returns,
\* and there is none without a location
createHover(c, fs, m, d, workspaceFolder, bindingUri, symbolName) ==
  findGoDefinition(c, fs, m, d, workspaceFolder, bindingUri, symbolName)

\* whether the import makes a hover for the word on the line
HoverMatches(imp, line, word) ==
  IF imp.isNamespace
  THEN Let(NsCallIn(line, imp.localName), LAMBDA match :
         match.ok /\ match.method = word)
  ELSE word = imp.localName /\ CallIn(line, imp.localName) # {}

hoverForUserCode(c, fs, m, d, workspaceFolder, bindingsDir, fsPath, text, line, word) ==
  Let(parseBindingsImports(text, bindingsDir), LAMBDA imports :
    IF Len(imports) = 0 THEN [NoHover EXCEPT !.cache = m]
    ELSE
      Let({k \in 1..Len(imports) : HoverMatches(imports[k], line, word)},
          LAMBDA matching :
        IF matching = {} THEN [NoHover EXCEPT !.cache = m]
        ELSE createHover(c, fs, m, d, workspaceFolder,
                         resolveBindingsSpecifier(d, fsPath,
                                                  imports[Min(matching)].specifier),
                         word)))

hoverForBindingsFile(c, fs, m, d, workspaceFolder, fsPath, line, word) ==
  Let(ExportFunctionAt(line, 1), LAMBDA exportMatch :
    IF ~exportMatch.ok \/ exportMatch.name # word THEN [NoHover EXCEPT !.cache = m]
    ELSE createHover(c, fs, m, d, workspaceFolder, fsPath, word))

\* provideHover for the word at a position of line lineIndex of the
\* document; the result is the Go location the hover links to
provideHover(c, fs, m, d, fsPath, text, lineIndex, word) ==
  Let(GetWorkspaceFolder(fsPath), LAMBDA workspaceFolder :
    IF workspaceFolder = Undefined THEN [NoHover EXCEPT !.cache = m]
    ELSE
      Let(getBindingsDir(c, fs, m, workspaceFolder), LAMBDA bindings :
      Let(DocumentLines(text)[lineIndex + 1], LAMBDA line :
      Let(IF /\ isWailsBindingsFile(text)
             /\ isInsideBindingsDir(fsPath, workspaceFolder, bindings.ret)
          THEN hoverForBindingsFile(c, fs, bindings.cache, d, workspaceFolder,
                                    fsPath, line, word)
          ELSE hoverForUserCode(c, fs, bindings.cache, d, workspaceFolder,
                                bindings.ret, fsPath, text, line, word),
          LAMBDA hover :
        [hover EXCEPT !.reads = bindings.reads \o hover.reads]))))

\* user code importing a function of the bindings and calling it on line 2
AppJs ==
  "import { Greet } from \"../bindings/greet\";\n\n"
    \o "const s = Greet(\"world\");\n"

\* the generated file the import names
GreetJs ==
  "// " \o GeneratedMarker \o ".\n"
    \o "export function Greet(name) {\n  return $Call.ByID(3, name);\n}\n"

GreetJsPath == WorkspaceFolders[1] \o "/frontend/bindings/greet.js"

\* the Go source with the declaration on its third line
GreetGo == "package main\n\nfunc Greet(name string) string {\n\treturn name\n}\n"

GreetGoPath == WorkspaceFolders[1] \o "/greet.go"

\* the words of AppJs a hover can be asked for, with their lines
HoverPositions ==
  {[lineIndex |-> 0, word |-> "Greet"], [lineIndex |-> 0, word |-> "import"],
   [lineIndex |-> 2, word |-> "Greet"], [lineIndex |-> 2, word |-> "world"]}

\* the project as a hover finds it: with or without the generated file, the
\* Go source and go.mod, and with the Taskfile the project has
InitHover ==
  /\ config = [sc \in ConfigScopes |-> Undefined]
  /\ \E c \in {Absent, TaskfileFlagPath, TaskfileOther} :
       files = [r \in Roots |->
                  IF r = WorkspaceFolders[1]
                  THEN [EmptyDir EXCEPT ![TaskfileNames[1]] = c] ELSE EmptyDir]
  /\ cache = EmptyCache
  /\ ProviderIdle
  /\ \E js \in {GreetJs, Absent}, go \in {GreetGo, Absent},
        goMod \in {GoModContent, Absent} :
       disk = [InitialDisk EXCEPT ![GreetJsPath] = js, ![GreetGoPath] = go,
                                  ![GoModPath(WorkspaceFolders[1])] = goMod]
  /\ last \in [op : {"call"}, position : HoverPositions]

\* provideHover(document, position) for app.js
ProvideHover ==
  /\ last.op = "call"
  /\ \E r \in {provideHover(config, files, cache, disk, UserCodePath, AppJs,
                            last.position.lineIndex, last.position.word)} :
       /\ cache' = r.cache
       /\ last' = [op |-> "provideHover", position |-> last.position,
                   ret |-> r.ret]
  /\ UNCHANGED <<config, files, disk, isResolving, requests>>

NextHover == ProvideHover

SpecHover == InitHover /\ [][NextHover]_vars

\* C13: with greet.go in the project, declaring Greet on line 2, the hover on
\* the call Greet("world") of app.js is resolved to greet.go, line 2.
C13_EndToEnd ==
  (/\ last.op = "provideHover"
   /\ last.position = [lineIndex |-> 2, word |-> "Greet"]
   /\ disk[GreetGoPath] = GreetGo)
    => /\ last.ret.uri = GreetGoPath
       /\ last.ret.line = 2


(***************************************************************************)
(* Failing reads: Taskfiles, go.mod, Go files and bindings files that      *)
(* exist and cannot be read.                                               *)
(***************************************************************************)
\* the calls made in a project with failing reads
FailureCalls ==
  {[op |-> "call", fn |-> "getBindingsDir", bindingPath |-> Undefined]}
    \cup {[op |-> "call", fn |-> "findGoDefinition", bindingPath |-> b] :
            b \in {BarrelSiblings[2], BarrelPath}}

\* the projects: each of the Taskfile, go.mod, the Go file and the first
\* bindings file of the directory is missing, readable or unreadable
InitFailures ==
  /\ config = [sc \in ConfigScopes |-> Undefined]
  /\ \E c \in {Absent, Unreadable, TaskfileOther, TaskfileFlagPath} :
       files = [r \in Roots |->
                  IF r = WorkspaceFolders[1]
                  THEN [EmptyDir EXCEPT ![TaskfileNames[1]] = c] ELSE EmptyDir]
  /\ cache = EmptyCache
  /\ ProviderIdle
  /\ \E goMod \in {GoModContent, Absent, Unreadable},
        go \in {GoLine("method", "Greet"), Absent, Unreadable},
        js \in {OtherServiceJs, Absent, Unreadable} :
       disk = [InitialDisk EXCEPT ![GoModPath(WorkspaceFolders[1])] = goMod,
                                  ![BarrelGoFiles[2]] = go,
                                  ![BarrelSiblings[1]] = js]
  /\ last \in FailureCalls

FailingGetBindingsDir ==
  /\ last.op = "call"
  /\ last.fn = "getBindingsDir"
  /\ GetBindingsDir(WorkspaceFolders[1])

FailingFindGoDefinition ==
  /\ last.op = "call"
  /\ last.fn = "findGoDefinition"
  /\ FindGoDefinition(WorkspaceFolders[1], last.bindingPath, "Greet")

NextFailures == FailingGetBindingsDir \/ FailingFindGoDefinition

SpecFailures == InitFailures /\ [][NextFailures]_vars

\* the Taskfiles and the disk with every unreadable file taken away
ReadableFiles ==
  [r \in Roots |-> [p \in TaskfilePaths |->
     IF files[r][p] = Unreadable THEN Absent ELSE files[r][p]]]

ReadableDisk ==
  [p \in DOMAIN disk |-> IF disk[p] = Unreadable THEN Absent ELSE disk[p]]

\* C14: a file that cannot be read counts as a missing one: getBindingsDir
\* returns what it returns without the file, the default when no Taskfile
\* yields a directory, and findGoDefinition returns what it returns without
\* the file.
C14_FailureIsAbsence ==
  /\ last.op = "getBindingsDir"
       => /\ last.ret = getBindingsDir(config, ReadableFiles, EmptyCache,
                                       WorkspaceFolders[1]).ret
          /\ Detected[ReadableFiles[WorkspaceFolders[1]]].ret = Null
               => last.ret = DefaultBindingsPath
  /\ last.op = "findGoDefinition"
       => last.ret = findGoDefinition(config, ReadableFiles, EmptyCache,
                                      ReadableDisk, WorkspaceFolders[1],
                                      last.bindingPath, last.symbolName).ret

\* the half of C14 about getBindingsDir
C14_GetBindingsDirDefault ==
  last.op = "getBindingsDir"
    => /\ last.ret = getBindingsDir(config, ReadableFiles, EmptyCache,
                                    WorkspaceFolders[1]).ret
       /\ Detected[ReadableFiles[WorkspaceFolders[1]]].ret = Null
            => last.ret = DefaultBindingsPath


(***************************************************************************)
(* The definition provider (WailsDefinitionProvider): requests that are    *)
(* suspended in executeDefinitionProvider and in findFiles.                *)
(***************************************************************************)
\* the first definition that lies in the bindings directory, or Null
FirstBindingsTarget(definitions, workspaceFolder, bindingsDir) ==
  Let({k \in 1..Len(definitions) :
         isInsideBindingsDir(definitions[k], workspaceFolder, bindingsDir)},
      LAMBDA inside :
    IF inside = {} THEN Null ELSE definitions[Min(inside)])

\* provideDefinition run from its call to its result with nothing in
\* between: the document, the word at the position, the flag as the call
\* finds it, what executeDefinitionProvider answers and whether the token is
\* cancelled by then
provideDefinition(c, fs, m, d, resolving, document, word, definitions, cancelled) ==
  Let(GetWorkspaceFolder(document), LAMBDA workspaceFolder :
    IF workspaceFolder = Undefined THEN NoLocation
    ELSE
      Let(getBindingsDir(c, fs, m, workspaceFolder), LAMBDA bindings :
        IF isInsideBindingsDir(document, workspaceFolder, bindings.ret)
        THEN findGoDefinition(c, fs, bindings.cache, d, workspaceFolder,
                              document, word).ret
        ELSE IF resolving THEN NoLocation
        ELSE IF definitions = Undefined \/ cancelled THEN NoLocation
        ELSE
          Let(FirstBindingsTarget(definitions, workspaceFolder, bindings.ret),
              LAMBDA targetUri :
            IF targetUri = Null THEN NoLocation
            ELSE findGoDefinition(c, fs, bindings.cache, d, workspaceFolder,
                                  targetUri, word).ret)))

\* the documents a definition is asked for: user code and a bindings file
DefinitionDocuments ==
  {UserCodePath,
   WorkspaceFolders[1] \o "/" \o BindingsPackageDir \o "/greetservice.js"}

\* what the other definition providers answer for a position of user code:
\* nothing, no location, the bindings file, or user code and the bindings file
DefinitionAnswers ==
  {Undefined, <<>>,
   <<WorkspaceFolders[1] \o "/" \o BindingsPackageDir \o "/greetservice.js">>,
   <<WorkspaceFolders[1] \o "/frontend/src/util.js",
     WorkspaceFolders[1] \o "/" \o BindingsPackageDir \o "/greetservice.js">>}

InitDefinition ==
  /\ config = [sc \in ConfigScopes |-> Undefined]
  /\ files = [r \in Roots |-> EmptyDir]
  /\ cache = EmptyCache
  /\ ProviderIdle
  /\ disk = PipelineDisk
  /\ last = NoCall

\* findGoDefinition is called for the request: it returns from its
\* constructed paths, or it is suspended in findFiles
CallsFindGoDefinition(id, request, bindingUri, m) ==
  \E r \in {findGoDefinition(config, files, m, disk, WorkspaceFolders[1],
                              bindingUri, request.word)} :
    /\ cache' = r.cache
    /\ requests' = [requests EXCEPT ![id] =
         IF r.findFiles
         THEN [request EXCEPT !.pc = "findFiles", !.target = bindingUri]
         ELSE [request EXCEPT !.pc = "done", !.target = bindingUri,
                              !.ret = r.ret, !.scanned = r.scanned]]

\* the request returns undefined
ReturnsUndefined(id, request) ==
  requests' = [requests EXCEPT ![id] = [request EXCEPT !.pc = "done"]]

\* the editor calls provideDefinition(document, position, token): the call
\* runs to its return or to its first await
ProvideDefinition(id, document, word, definitions) ==
  /\ requests[id].pc = "idle"
  /\ \A j \in 1..(id - 1) : requests[j].pc # "idle"
  /\ \E bindings \in {getBindingsDir(config, files, cache, WorkspaceFolders[1])},
        request \in {[pc |-> "idle", document |-> document, word |-> word,
                      definitions |-> definitions, target |-> Null,
                      cancelled |-> FALSE, cancelledAt |-> "",
                      ret |-> NoLocation, scanned |-> <<>>]} :
       IF isInsideBindingsDir(document, WorkspaceFolders[1], bindings.ret)
       THEN /\ CallsFindGoDefinition(id, request, document, bindings.cache)
            /\ UNCHANGED isResolving
       ELSE IF isResolving
       THEN /\ ReturnsUndefined(id, request)
            /\ cache' = bindings.cache
            /\ UNCHANGED isResolving
       ELSE /\ isResolving' = TRUE
            /\ requests' = [requests EXCEPT ![id] =
                 [request EXCEPT !.pc = "executeDefinitionProvider"]]
            /\ cache' = bindings.cache
  /\ UNCHANGED <<config, files, disk, last>>

\* executeDefinitionProvider answers: the request goes on after its await,
\* and the finally block resets the flag as the try block is left
DefinitionsArrive(id) ==
  /\ requests[id].pc = "executeDefinitionProvider"
  /\ isResolving' = FALSE
  /\ \E request \in {requests[id]},
        bindings \in {getBindingsDir(config, files, cache, WorkspaceFolders[1])} :
       IF request.definitions = Undefined \/ request.cancelled
       THEN ReturnsUndefined(id, request) /\ UNCHANGED cache
       ELSE
         \E targetUri \in {FirstBindingsTarget(request.definitions,
                                               WorkspaceFolders[1], bindings.ret)} :
           IF targetUri = Null
           THEN ReturnsUndefined(id, request) /\ UNCHANGED cache
           ELSE CallsFindGoDefinition(id, request, targetUri, cache)
  /\ UNCHANGED <<config, files, disk, last>>

\* findFiles answers: the loop over the candidates runs and the request
\* returns
FilesFound(id) ==
  /\ requests[id].pc = "findFiles"
  /\ \E r \in {findGoDefinition(config, files, cache, disk, WorkspaceFolders[1],
                                 requests[id].target, requests[id].word)} :
       /\ cache' = r.cache
       /\ requests' = [requests EXCEPT ![id] =
            [requests[id] EXCEPT !.pc = "done", !.ret = r.ret,
                                 !.scanned = r.scanned]]
  /\ UNCHANGED <<config, files, disk, last, isResolving>>

\* the editor cancels the request's token while the request is suspended
CancelRequest(id) ==
  /\ requests[id].pc \in {"executeDefinitionProvider", "findFiles"}
  /\ ~requests[id].cancelled
  /\ requests' = [requests EXCEPT ![id] =
       [requests[id] EXCEPT !.cancelled = TRUE, !.cancelledAt = requests[id].pc]]
  /\ UNCHANGED <<config, files, cache, disk, last, isResolving>>

NextDefinition ==
  \/ \E id \in RequestIds, document \in DefinitionDocuments,
        definitions \in DefinitionAnswers :
       ProvideDefinition(id, document, "Greet", definitions)
  \/ \E id \in RequestIds : DefinitionsArrive(id)
  \/ \E id \in RequestIds : FilesFound(id)
  \/ \E id \in RequestIds : CancelRequest(id)

SpecDefinition == InitDefinition /\ [][NextDefinition]_vars

\* C15: a request whose token was not cancelled returns what the same
\* request returns when it is the only one, whatever other request is in
\* flight when it is made.
C15_AsIfAlone ==
  \A id \in RequestIds :
    (requests[id].pc = "done" /\ ~requests[id].cancelled)
      => requests[id].ret
           = provideDefinition(config, files, EmptyCache, disk, FALSE,
                               requests[id].document, requests[id].word,
                               requests[id].definitions, FALSE)


\* C16: a request whose token is cancelled while findGoDefinition waits for
\* the files of its project-wide search scans no candidate and returns
\* not-found.
C16_CancelledSearchStops ==
  \A id \in RequestIds :
    (requests[id].pc = "done" /\ requests[id].cancelledAt = "findFiles")
      => /\ requests[id].ret = NoLocation
         /\ requests[id].scanned = <<>>


(***************************************************************************)
(* isWailsBindingsFile on documents with and without the marker.           *)
(***************************************************************************)
\* the kinds of line of a document: the generator's comment, a comment that
\* begins like it, and code
DocLineKinds == {"marker", "near", "code"}

DocLine(kind) ==
  CASE kind = "marker" -> "// " \o GeneratedMarker \o ". PEIDIWCH"
    [] kind = "near" -> "// Cynhyrchwyd y ffeil hon"
    [] kind = "code" -> "export function Greet(name) {}"

\* documents have at most this many lines
MaxDocLines == 6

DocSpecs == UNION {[1..n -> DocLineKinds] : n \in 1..MaxDocLines}

DocText(lines) == Join([i \in 1..Len(lines) |-> DocLine(lines[i])], "\n")

InitMarker ==
  /\ Activated
  /\ last \in [op : {"call"}, lines : DocSpecs]

\* the call isWailsBindingsFile(document)
IsWailsBindingsFile ==
  /\ last.op = "call"
  /\ last' = [op |-> "isWailsBindingsFile", lines |-> last.lines,
              ret |-> isWailsBindingsFile(DocText(last.lines))]
  /\ UNCHANGED <<config, files, cache, disk, isResolving, requests>>

NextMarker == IsWailsBindingsFile

SpecMarker == InitMarker /\ [][NextMarker]_vars

\* C17: isWailsBindingsFile is true iff one of the first five lines of the
\* document has the generator's comment; a comment on a later line only, or
\* none, is rejected.
C17_MarkerInHeader ==
  last.op = "isWailsBindingsFile"
    => (last.ret <=> \E i \in 1..Len(last.lines) :
                       i <= 5 /\ last.lines[i] = "marker")

\* a document with the comment on its sixth line only, rejected
C17_Witness ==
  /\ last.op = "isWailsBindingsFile"
  /\ last.lines = <<"code", "near", "code", "code", "code", "marker">>
  /\ ~last.ret


(***************************************************************************)
(* provideCodeLenses on calls of imported and of other identifiers.        *)
(***************************************************************************)
\* the identifiers calls are made on: the imported local name, the local
\* name of an import from another module, and identifiers that end with,
\* begin with or differ in case from the imported local name
Receivers ==
  {"GreetService", "Events", "MyGreetService", "GreetServiceX", "greetService"}

\* how the document imports GreetService from the bindings
ImportStyles ==
  {"import { GreetService } from \"../bindings/changeme\";",
   "import * as GreetService from \"../bindings/changeme\";",
   "import GreetService from \"../bindings/changeme\";"}

CallSpecs ==
  [import : ImportStyles, receiver : Receivers, method : {"Greet", "On"},
   before : {"", "await ", "x = "}, space : {"", " "}]

\* user code with the import, an import from the runtime, and one call
CallDocument(spec) ==
  spec.import \o "\n"
    \o "import { Events } from \"@wailsio/runtime\";\n"
    \o spec.before \o spec.receiver \o "." \o spec.method \o spec.space
    \o "(\"x\");\n"

InitCalls ==
  /\ Activated
  /\ last \in [op : {"call"}, spec : CallSpecs]

\* provideCodeLenses(document) for the document of the call
ProvideCodeLensesForCall ==
  /\ last.op = "call"
  /\ ProvideCodeLenses(UserCodePath, CallDocument(last.spec))

NextCalls == ProvideCodeLensesForCall

SpecCalls == InitCalls /\ [][NextCalls]_vars

\* C18: a call X.Method( gets a lens only if X is the local name of an
\* import from the bindings; a call on an identifier imported from elsewhere,
\* or on one that only ends with the local name, gets none.
C18_LensOnlyOnImportedName ==
  \A spec \in CallSpecs :
    (/\ last.op = "provideCodeLenses"
     /\ last.text = CallDocument(spec)
     /\ spec.receiver # "GreetService")
      => last.ret = <<>>

\* the same, but for identifiers that end with the imported local name
C18_LensUnlessSuffix ==
  \A spec \in CallSpecs :
    (/\ last.op = "provideCodeLenses"
     /\ last.text = CallDocument(spec))
      => (last.ret # <<>> <=> EndsWith(spec.receiver, "GreetService"))


(***************************************************************************)
(* parseTaskfileForBindingsDir on generate:bindings tasks with a command   *)
(* and with generates: entries.                                            *)
(***************************************************************************)
\* how the task is written: which subsection comes first, the flag of the
\* command (none, -d or -dir) and its quoting, the generates: entry (none,
\* two globs, an exclusion), and whether another task follows
TaskSpecs ==
  [order : {"cmds", "generates"}, flag : {"", "-d", "-dir"}, quoted : BOOLEAN,
   glob : {"", "frontend/bindings/**/*", "frontend/out/*",
           "exclude: frontend/tmp/**/*"},
   followed : BOOLEAN]

FlagDir == "frontend/gen/bindings"

CmdsSection(spec) ==
  "    cmds:\n      - wails3 generate bindings -clean=true"
    \o (IF spec.flag = "" THEN ""
        ELSE " " \o spec.flag \o " "
               \o (IF spec.quoted THEN "'" \o FlagDir \o "'" ELSE FlagDir))
    \o " -ts\n"

GeneratesSection(spec) ==
  IF spec.glob = "" THEN ""
  ELSE "    generates:\n      - \"" \o spec.glob \o "\"\n"

TaskfileOf(spec) ==
  "version: '3'\ntasks:\n  generate:bindings:\n"
    \o (IF spec.order = "cmds"
        THEN CmdsSection(spec) \o GeneratesSection(spec)
        ELSE GeneratesSection(spec) \o CmdsSection(spec))
    \o (IF spec.followed THEN "  build:\n    cmds:\n      - go build\n" ELSE "")

InitTaskfile ==
  /\ Activated
  /\ last \in [op : {"call"}, spec : TaskSpecs]

\* parseTaskfileForBindingsDir(taskfilePath) for the Taskfile of the task
ParseTaskfileForBindingsDir ==
  /\ last.op = "call"
  /\ last' = [op |-> "parseTaskfileForBindingsDir", spec |-> last.spec,
              ret |-> parseTaskfileForBindingsDir(TaskfileOf(last.spec))]
  /\ UNCHANGED <<config, files, cache, disk, isResolving, requests>>

NextTaskfile == ParseTaskfileForBindingsDir

SpecTaskfile == InitTaskfile /\ [][NextTaskfile]_vars

\* the directory a generates: entry of the model stands for
GlobDir(glob) ==
  CASE glob = "frontend/bindings/**/*" -> "frontend/bindings"
    [] glob = "frontend/out/*" -> "frontend/out"
    [] OTHER -> Null

\* C19: when the command of the task has a -d or -dir flag its value is
\* returned, with or without generates: entries and whichever subsection
\* comes first; a generates: entry is used only without such a flag.
C19_FlagBeforeGlob ==
  last.op = "parseTaskfileForBindingsDir"
    => last.ret = IF last.spec.flag # "" THEN FlagDir
                  ELSE GlobDir(last.spec.glob)

\* the same for tasks whose cmds: subsection comes first
C19_FlagBeforeGlobInOrder ==
  (last.op = "parseTaskfileForBindingsDir" /\ last.spec.order = "cmds")
    => last.ret = IF last.spec.flag # "" THEN FlagDir
                  ELSE GlobDir(last.spec.glob)


(***************************************************************************)
(* detectBindingsDirFromTaskfile on roots with several Taskfiles.          *)
(***************************************************************************)
\* what each of the four Taskfile paths of a root holds: nothing, a Taskfile
\* that names a directory (two of them, with different directories), one
\* that names none, or a file that cannot be read
ManifestContents == {Absent, TaskfileFlag, TaskfileFlagPath, TaskfileOther, Unreadable}

ManifestDirs == [TaskfilePaths -> ManifestContents]

InitDetect ==
  /\ Activated
  /\ last \in [op : {"call"}, dir : ManifestDirs]

\* detectBindingsDirFromTaskfile(workspacePath) for a root with these files
DetectBindingsDirFromTaskfile ==
  /\ last.op = "call"
  /\ last' = [op |-> "detectBindingsDirFromTaskfile", dir |-> last.dir,
              ret |-> detectBindingsDirFromTaskfile(last.dir).ret]
  /\ UNCHANGED <<config, files, cache, disk, isResolving, requests>>

NextDetect == DetectBindingsDirFromTaskfile

SpecDetect == InitDetect /\ [][NextDetect]_vars

\* the directories the Taskfiles at the given paths yield
Yields(dir, paths) ==
  {ParsedTaskfile[dir[p]] : p \in {q \in paths : dir[q] # Absent}} \ {Null}

RootManifests == {TaskfileNames[i] : i \in 1..Len(TaskfileNames)}

BuildManifests == {BuildPath(TaskfileNames[i]) : i \in 1..Len(TaskfileNames)}

\* C20: when a Taskfile at the root, of either name, yields a directory, a
\* directory of a root Taskfile is returned; a Taskfile in build/ decides
\* only when no root Taskfile yields one.
C20_RootBeforeBuild ==
  last.op = "detectBindingsDirFromTaskfile"
    => IF Yields(last.dir, RootManifests) # {}
       THEN last.ret \in Yields(last.dir, RootManifests)
       ELSE IF Yields(last.dir, BuildManifests) # {}
       THEN last.ret \in Yields(last.dir, BuildManifests)
       ELSE last.ret = Null

\* what holds: the order is root and build/ for Taskfile.yml, then root and
\* build/ for Taskfile.yaml
C20_NameBeforePlace ==
  last.op = "detectBindingsDirFromTaskfile"
    => LET order == <<TaskfileNames[1], BuildPath(TaskfileNames[1]),
                      TaskfileNames[2], BuildPath(TaskfileNames[2])>>
           yielding == {k \in 1..4 : Yields(last.dir, {order[k]}) # {}}
       IN  IF yielding = {} THEN last.ret = Null
           ELSE last.ret = ParsedTaskfile[last.dir[order[Min(yielding)]]]


(***************************************************************************)
(* parseTaskfileForBindingsDir on Taskfiles with a second task.            *)
(***************************************************************************)
\* the generate:bindings task (with or without the flag and a generates:
\* entry) and another task: written at the indentation of generate:bindings
\* or at column 0, before or after it, with a command and maybe a
\* generates: entry of its own
SiblingSpecs ==
  [flag : {"", "-d"}, glob : {"", "frontend/bindings/**/*"},
   indent : {"", "  "}, place : {"before", "after"},
   command : {"go build -o bin/app", "wails3 generate bindings -d other/bindings"},
   output : {"", "bin/app", "build/bin/**/*"}]

BindingsTask(spec) ==
  spec.indent \o "generate:bindings:\n"
    \o spec.indent \o "  cmds:\n"
    \o spec.indent \o "    - wails3 generate bindings -clean=true"
    \o (IF spec.flag = "" THEN "" ELSE " " \o spec.flag \o " " \o FlagDir) \o "\n"
    \o (IF spec.glob = "" THEN ""
        ELSE spec.indent \o "  generates:\n"
               \o spec.indent \o "    - \"" \o spec.glob \o "\"\n")

SiblingTask(spec) ==
  spec.indent \o "build:\n"
    \o spec.indent \o "  cmds:\n"
    \o spec.indent \o "    - " \o spec.command \o "\n"
    \o (IF spec.output = "" THEN ""
        ELSE spec.indent \o "  generates:\n"
               \o spec.indent \o "    - \"" \o spec.output \o "\"\n")

TaskfileWithSibling(spec) ==
  "version: '3'\n" \o (IF spec.indent = "" THEN "" ELSE "tasks:\n")
    \o (IF spec.place = "before"
        THEN SiblingTask(spec) \o BindingsTask(spec)
        ELSE BindingsTask(spec) \o SiblingTask(spec))

InitSibling ==
  /\ Activated
  /\ last \in [op : {"call"}, spec : SiblingSpecs]

\* parseTaskfileForBindingsDir(taskfilePath) for the Taskfile of two tasks
ParseTaskfileWithSibling ==
  /\ last.op = "call"
  /\ last' = [op |-> "parseTaskfileForBindingsDir", spec |-> last.spec,
              ret |-> parseTaskfileForBindingsDir(TaskfileWithSibling(last.spec))]
  /\ UNCHANGED <<config, files, cache, disk, isResolving, requests>>

NextSibling == ParseTaskfileWithSibling

SpecSibling == InitSibling /\ [][NextSibling]_vars

\* C21: what the scanner returns is what the generate:bindings task yields:
\* no flag and no generates: entry of the other task is returned, wherever
\* that task stands.
C21_OnlyTheBindingsTask ==
  last.op = "parseTaskfileForBindingsDir"
    => last.ret = IF last.spec.flag # "" THEN FlagDir
                  ELSE GlobDir(last.spec.glob)

\* the same for Taskfiles whose tasks begin at column 0
C21_OnlyTheBindingsTaskAtColumn0 ==
  (last.op = "parseTaskfileForBindingsDir" /\ last.spec.indent = "")
    => last.ret = IF last.spec.flag # "" THEN FlagDir
                  ELSE GlobDir(last.spec.glob)


(***************************************************************************)
(* The wails.goToBackend command (extension.ts).                           *)
(***************************************************************************)
\* the active editor: none, or a document with the word at the cursor (Null
\* where the cursor is on no word)
NoEditor == [present |-> FALSE, uri |-> Undefined, word |-> Null]

\* what the command has done when it ends: the notification shown, the
\* document opened, whether an exception left the handler, and the cache
CommandEnds(message, opened, thrown, m) ==
  [message |-> message, opened |-> opened, thrown |-> thrown, cache |-> m]

CouldNotFind(symbolName) ==
  "Could not find Go definition for \"" \o symbolName \o "\"."

\* the handler from the point where bindingUri and symbolName are known;
\* findFiles and showTextDocument are calls of the host that are awaited
\* with no try around them, and each of them may reject
GoToBackendFor(c, fs, m, d, bindingUri, symbolName, findFilesRejects, showRejects) ==
  Let(GetWorkspaceFolder(bindingUri), LAMBDA workspaceFolder :
    IF workspaceFolder = Undefined THEN CommandEnds("", Null, FALSE, m)
    ELSE
      Let(findGoDefinition(c, fs, m, d, workspaceFolder, bindingUri, symbolName),
          LAMBDA location :
        IF location.findFiles /\ findFilesRejects
          THEN CommandEnds("", Null, TRUE, location.cache)
        ELSE IF location.ret = NoLocation
          THEN CommandEnds(CouldNotFind(symbolName), Null, FALSE, location.cache)
        ELSE IF showRejects
          THEN CommandEnds("", Null, TRUE, location.cache)
        ELSE CommandEnds("", location.ret.uri, FALSE, location.cache)))

\* the handler of wails.goToBackend(bindingUri?, symbolName?); arguments not
\* given are Undefined
goToBackend(c, fs, m, d, bindingUri, symbolName, editor, findFilesRejects, showRejects) ==
  IF bindingUri = Undefined \/ symbolName = Undefined
  THEN IF ~editor.present THEN CommandEnds("", Null, FALSE, m)
       ELSE IF editor.word = Null
         THEN CommandEnds("Place the cursor on a symbol name.", Null, FALSE, m)
       ELSE GoToBackendFor(c, fs, m, d, editor.uri, editor.word,
                           findFilesRejects, showRejects)
  ELSE GoToBackendFor(c, fs, m, d, bindingUri, symbolName,
                      findFilesRejects, showRejects)

\* the ways the command is invoked: from a lens or a hover link with its
\* arguments, or from the palette with the active editor
CommandCalls ==
  LET greetservice == WorkspaceFolders[1] \o "/" \o BindingsPackageDir \o "/greetservice.js"
  IN  [bindingUri : {greetservice}, symbolName : Symbols, editor : {NoEditor}]
        \cup [bindingUri : {Undefined}, symbolName : {Undefined},
              editor : {NoEditor,
                        [present |-> TRUE, uri |-> greetservice, word |-> "Greet"],
                        [present |-> TRUE, uri |-> greetservice, word |-> "greet"],
                        [present |-> TRUE, uri |-> greetservice, word |-> Null],
                        [present |-> TRUE, uri |-> "/tmp/scratch.js", word |-> "Greet"]}]

\* the project with greetservice.go declaring Greet, without it, and with
\* it unreadable
InitCommand ==
  /\ config = [sc \in ConfigScopes |-> Undefined]
  /\ files = [r \in Roots |-> EmptyDir]
  /\ cache = EmptyCache
  /\ ProviderIdle
  /\ \E go \in {PipelineDisk[BarrelGoFiles[2]], Absent, Unreadable} :
       disk = [InitialDisk EXCEPT ![BarrelGoFiles[2]] = go]
  /\ last \in [op : {"call"}, call : CommandCalls,
               findFilesRejects : BOOLEAN, showRejects : BOOLEAN]

\* the command runs
GoToBackend ==
  /\ last.op = "call"
  /\ \E r \in {goToBackend(config, files, cache, disk, last.call.bindingUri,
                           last.call.symbolName, last.call.editor,
                           last.findFilesRejects, last.showRejects)} :
       /\ cache' = r.cache
       /\ last' = [op |-> "goToBackend", call |-> last.call,
                   message |-> r.message, opened |-> r.opened,
                   thrown |-> r.thrown]
  /\ UNCHANGED <<config, files, disk, isResolving, requests>>

NextCommand == GoToBackend

SpecCommand == InitCommand /\ [][NextCommand]_vars

\* a command that opens no document has shown the notification that no
\* definition was found, or is one without editor, without a word at the
\* cursor or without workspace
NothingOpenedIsExplained ==
  last.opened = Null
    => \/ last.message \in {CouldNotFind(symbolName) : symbolName \in Symbols}
       \/ ~last.call.editor.present /\ last.call.bindingUri = Undefined
       \/ last.call.editor.present /\ last.call.editor.word = Null
       \/ /\ last.call.editor.present
          /\ GetWorkspaceFolder(last.call.editor.uri) = Undefined

\* C22: no exception leaves the command, and a command that opens no
\* document has shown the notification that no definition was found, or is
\* one without editor, without a word at the cursor or without workspace.
C22_NoFailureEscapes ==
  last.op = "goToBackend" => (~last.thrown /\ NothingOpenedIsExplained)

\* the same for commands during which no call of the host rejects
C22_NoFailureWithoutRejection ==
  (last.op = "goToBackend" /\ ~last.thrown) => NothingOpenedIsExplained

(***************************************************************************)
(* The order of the candidates of findGoDefinition.                        *)
(***************************************************************************)
\* the Go files of the project, each missing, declaring Greet, or holding
\* Greet in a call only
OrderDisks ==
  {[p \in DiskPaths |->
      IF p = GoModPath(WorkspaceFolders[1]) THEN goMod
      ELSE IF p \in GoFiles(WorkspaceFolders[1]) THEN g[p]
      ELSE InitialDisk[p]] :
     goMod \in {GoModContent, GoModHosted},
     g \in [GoFiles(WorkspaceFolders[1]) ->
              {GoText(lines) : lines \in GoSources} \cup {Absent}]}

InitOrder ==
  /\ config = [sc \in ConfigScopes |-> Undefined]
  /\ files = [r \in Roots |->
                IF r = WorkspaceFolders[1]
                THEN [EmptyDir EXCEPT ![TaskfileNames[1]] = TaskfileFlagPath]
                ELSE EmptyDir]
  /\ cache = EmptyCache
  /\ ProviderIdle
  /\ disk \in OrderDisks
  /\ last \in [op : {"call"},
               bindingPath : BindingPaths \ {WorkspaceFolders[1] \o "/"
                                 \o BindingsPackageDir \o "/index.js"},
               symbolName : {"Greet"}]

NextOrder == CallFindGoDefinition

SpecOrder == InitOrder /\ [][NextOrder]_vars

\* whether the file exists and holds a declaration of the symbol
Declares(d, fsPath, symbolName) ==
  /\ fsPath # Null
  /\ DiskExists(d, fsPath)
  /\ searchGoFileForSymbol(d, fsPath, symbolName) # NoLocation

\* the files of the project-wide search for goFileName: below the folder,
\* outside node_modules, .direnv, vendor and the bindings directory
SearchedFiles(d, workspaceFolder, goFileName, bindingsDir) ==
  {p \in DiskPaths :
     /\ DiskExists(d, p)
     /\ StartsWith(p, workspaceFolder \o "/")
     /\ PathBasename(p) = goFileName
     /\ \A dir \in {"node_modules", ".direnv", "vendor", bindingsDir} :
          ~Includes(p, "/" \o dir \o "/")}

\* the position of a path in the listing of the disk
ListingIndex(p) == CHOOSE i \in 1..Len(DiskListing) : DiskListing[i] = p

\* the file the three steps of the lookup lead to, Null when none does
FirstInOrder(d, workspaceFolder, bindingPath, symbolName) ==
  LET stem == Stem(bindingPath)
      parentDirName == PathBasename(PathDirname(bindingPath))
      direct == constructGoFilePath(config, files, cache, d, workspaceFolder,
                                    bindingPath, stem \o ".go").ret
      fallback == constructGoFilePath(config, files, cache, d, workspaceFolder,
                                      bindingPath, parentDirName \o ".go").ret
      found == {p \in SearchedFiles(d, workspaceFolder, stem \o ".go",
                                    getBindingsDir(config, files, cache,
                                                   workspaceFolder).ret) :
                  Declares(d, p, symbolName)}
  IN  IF Declares(d, direct, symbolName) THEN direct
      ELSE IF /\ ~(direct # Null /\ DiskExists(d, direct))
              /\ parentDirName # stem
              /\ Declares(d, fallback, symbolName) THEN fallback
      ELSE IF found = {} THEN Null
      ELSE CHOOSE p \in found :
             \A q \in found : ListingIndex(p) <= ListingIndex(q)

\* C23: findGoDefinition returns the declaration in the first file, in the
\* order direct path, parent-directory path (only when the direct path does
\* not exist), files of the project-wide search in result order, that
\* declares the symbol, and undefined when none does.
C23_CandidatesInOrder ==
  last.op = "findGoDefinition"
    => Let(FirstInOrder(disk, last.root, last.bindingPath, last.symbolName),
           LAMBDA first :
         IF first = Null THEN last.ret = NoLocation
         ELSE last.ret = searchGoFileForSymbol(disk, first, last.symbolName))

\* a lookup whose direct path greetservice.go exists without a declaration,
\* so that changeme.go, which declares Greet, is not tried, and which
\* returns the declaration the search finds in pkg/greetservice.go
C23_Witness ==
  /\ last.op = "findGoDefinition"
  /\ last.bindingPath =
       WorkspaceFolders[1] \o "/" \o BindingsPackageDir \o "/greetservice.js"
  /\ disk[GoModPath(WorkspaceFolders[1])] = GoModHosted
  /\ DiskExists(disk, WorkspaceFolders[1] \o "/greetservice.go")
  /\ ~Declares(disk, WorkspaceFolders[1] \o "/greetservice.go", "Greet")
  /\ Declares(disk, WorkspaceFolders[1] \o "/changeme.go", "Greet")
  /\ Declares(disk, WorkspaceFolders[1] \o "/pkg/greetservice.go", "Greet")
  /\ Declares(disk, WorkspaceFolders[1] \o "/vendor/greetservice.go", "Greet")
  /\ last.ret # NoLocation
  /\ last.ret.uri = WorkspaceFolders[1] \o "/pkg/greetservice.go"

\* a lookup whose direct path does not exist and which returns the
\* declaration in the file named after the parent directory
C23_ParentDirectoryTried ==
  /\ last.op = "findGoDefinition"
  /\ disk[GoModPath(WorkspaceFolders[1])] = GoModHosted
  /\ ~DiskExists(disk, WorkspaceFolders[1] \o "/greetservice.go")
  /\ Declares(disk, WorkspaceFolders[1] \o "/pkg/greetservice.go", "Greet")
  /\ last.ret # NoLocation
  /\ last.ret.uri = WorkspaceFolders[1] \o "/changeme.go"

(***************************************************************************)
(* constructGoFilePath on the paths of generated bindings.                 *)
(***************************************************************************)
\* the module a go.mod of the model declares
ModuleOf(goMod) ==
  IF goMod = GoModContent THEN "changeme" ELSE "github.com/acme/changeme"

\* the bindings files: below a bindings directory, the directory of a
\* module, and the directory of a package of it or none
ConstructCalls ==
  [bindingsDir : {"frontend/bindings", DefaultBindingsPath},
   module : {"changeme", "github.com/acme/changeme", "github.com/wailsapp/wails"},
   package : {"", "pkg"},
   stem : {"greetservice", "models"}]

\* <root>/<bindingsDir>/<module>[/<package>]/<stem>.js
BindingsFileOf(root, call) ==
  root \o "/" \o call.bindingsDir \o "/" \o call.module
       \o (IF call.package = "" THEN "" ELSE "/" \o call.package)
       \o "/" \o call.stem \o ".js"

\* <root>[/<package>]/<stem>.go
GoFileOf(root, call) ==
  root \o (IF call.package = "" THEN "" ELSE "/" \o call.package)
       \o "/" \o call.stem \o ".go"

InitConstruct ==
  /\ config = [sc \in ConfigScopes |-> Undefined]
  /\ \E c \in {Absent, TaskfileFlagPath} :
       files = [r \in Roots |->
                  IF r = WorkspaceFolders[1]
                  THEN [EmptyDir EXCEPT ![TaskfileNames[1]] = c] ELSE EmptyDir]
  /\ cache = EmptyCache
  /\ ProviderIdle
  /\ \E goMod \in {GoModContent, GoModHosted} :
       disk = [InitialDisk EXCEPT ![GoModPath(WorkspaceFolders[1])] = goMod]
  /\ last \in [op : {"call"}, call : ConstructCalls]

\* constructGoFilePath(workspacePath, bindingsFilePath, `${stem}.go`)
ConstructGoFilePath ==
  /\ last.op = "call"
  /\ \E r \in {constructGoFilePath(config, files, cache, disk, WorkspaceFolders[1],
                                   BindingsFileOf(WorkspaceFolders[1], last.call),
                                   last.call.stem \o ".go")} :
       /\ cache' = r.cache
       /\ last' = [op |-> "constructGoFilePath", call |-> last.call,
                   bindingsDir |-> getBindingsDir(config, files, cache,
                                                  WorkspaceFolders[1]).ret,
                   ret |-> r.ret]
  /\ UNCHANGED <<config, files, disk, isResolving, requests>>

NextConstruct == ConstructGoFilePath

SpecConstruct == InitConstruct /\ [][NextConstruct]_vars

\* the file lies below the bindings directory of the project and the
\* directory of the module go.mod declares
OfOwnModule ==
  /\ last.op = "constructGoFilePath"
  /\ last.call.bindingsDir = last.bindingsDir
  /\ last.call.module = ModuleOf(disk[GoModPath(WorkspaceFolders[1])])

\* C24: for <root>/<bindingsDir>/<module>/<stem>.js and go.mod declaring
\* <module>, constructGoFilePath yields <root>/<stem>.go, and for
\* <root>/<bindingsDir>/<module>/pkg/<stem>.js it yields <root>/pkg/<stem>.go.
C24_ModuleNameStripped ==
  OfOwnModule => last.ret = GoFileOf(WorkspaceFolders[1], last.call)

\* the same for the files of a package below the module's directory
C24_PackageBelowModule ==
  (OfOwnModule /\ last.call.package # "")
    => last.ret = GoFileOf(WorkspaceFolders[1], last.call)

\* for the files in the module's own directory no path is constructed
C24_NoPathInModuleDirectory ==
  (OfOwnModule /\ last.call.package = "") => last.ret = Null

(***************************************************************************)
(* The re-entrancy guard of the definition provider.                       *)
(***************************************************************************)
\* executeDefinitionProvider rejects and the finally block does not run
DefinitionsFail_NoFinally(id) ==
  /\ requests[id].pc = "executeDefinitionProvider"
  /\ requests' = [requests EXCEPT ![id] = [requests[id] EXCEPT !.pc = "rejected"]]
  /\ UNCHANGED <<config, files, cache, disk, last, isResolving>>

\* executeDefinitionProvider rejects: the exception leaves the try block
\* through finally, and provideDefinition rejects
DefinitionsFail(id) ==
  /\ requests[id].pc = "executeDefinitionProvider"
  /\ isResolving' = FALSE
  /\ requests' = [requests EXCEPT ![id] = [requests[id] EXCEPT !.pc = "rejected"]]
  /\ UNCHANGED <<config, files, cache, disk, last>>

\* the other providers answer nothing, or the location in the bindings file
GuardAnswers ==
  {Undefined,
   <<WorkspaceFolders[1] \o "/" \o BindingsPackageDir \o "/greetservice.js">>}

NextGuard ==
  \/ \E id \in RequestIds, document \in DefinitionDocuments,
        definitions \in GuardAnswers :
       ProvideDefinition(id, document, "Greet", definitions)
  \/ \E id \in RequestIds : DefinitionsArrive(id)
  \/ \E id \in RequestIds : DefinitionsFail(id)
  \/ \E id \in RequestIds : FilesFound(id)
  \/ \E id \in RequestIds : CancelRequest(id)

SpecGuard == InitDefinition /\ [][NextGuard]_vars

\* the requests that wait for executeDefinitionProvider
Outstanding == {id \in RequestIds : requests[id].pc = "executeDefinitionProvider"}

\* a call for a document outside the bindings directory made while the
\* flag is set returns undefined at once
ReentrantCallReturns ==
  \A id \in RequestIds :
    (/\ isResolving
     /\ requests[id].pc = "idle"
     /\ requests'[id].pc # "idle"
     /\ requests'[id].document = UserCodePath)
      => /\ requests'[id].pc = "done"
         /\ requests'[id].ret = NoLocation
         /\ requests'[id].target = Null
         /\ UNCHANGED isResolving

\* C25: at most one request waits for executeDefinitionProvider; isResolving
\* is set exactly while one does, and so is clear when every call has
\* completed; a call for user code made while it is set returns undefined
\* without issuing a request.
C25_ReentrancyGuard ==
  /\ [](Cardinality(Outstanding) <= 1)
  /\ [](isResolving <=> Outstanding # {})
  /\ [][ReentrantCallReturns]_vars

\* a call for user code was made while the first request waited for
\* executeDefinitionProvider and has returned undefined; the first request
\* still waits
C25_Witness ==
  /\ requests[1].pc = "executeDefinitionProvider"
  /\ requests[2].pc = "done"
  /\ requests[2].document = UserCodePath
  /\ requests[2].definitions # Undefined
  /\ requests[2].ret = NoLocation
  /\ isResolving

\* a request whose executeDefinitionProvider rejected
C25_AfterRejection ==
  /\ requests[1].pc = "rejected"
  /\ requests[2].pc = "executeDefinitionProvider"

(***************************************************************************)
(* The recursion of findGoDefinition on barrel files.                      *)
(***************************************************************************)
\* the model follows the recursion no deeper than this
MaxDepth == 3

\* the files with stem index a lookup starts from
IndexPaths ==
  {WorkspaceFolders[1] \o "/" \o BindingsPackageDir \o "/" \o name :
     name \in {"index.js", "index.ts", "index.d.ts"}}

\* the directory of the barrel: each file of it is missing, a generated
\* file with Greet or one without
RecursionDisks ==
  {[p \in DiskPaths |->
      IF p \in IndexPaths \cup {BarrelSiblings[1], BarrelSiblings[2]} THEN js[p]
      ELSE PipelineDisk[p]] :
     js \in [IndexPaths \cup {BarrelSiblings[1], BarrelSiblings[2]} ->
               {GreetServiceJs, OtherServiceJs, Absent}]}

RecursionFrame(bindingPath, symbolName, depth) ==
  [op |-> "findGoDefinition:enter", bindingPath |-> bindingPath,
   symbolName |-> symbolName, depth |-> depth]

InitRecursion ==
  /\ config = [sc \in ConfigScopes |-> Undefined]
  /\ files = [r \in Roots |-> EmptyDir]
  /\ cache = EmptyCache
  /\ ProviderIdle
  /\ disk \in RecursionDisks
  /\ \E bindingPath \in IndexPaths : last = RecursionFrame(bindingPath, "Greet", 0)

\* one call of findGoDefinition, entered at the given depth: for a stem
\* index it resolves the re-export and calls itself on the file found or
\* returns undefined; for another stem it runs the lookup and returns
EnterFindGoDefinition ==
  /\ last.op = "findGoDefinition:enter"
  /\ last.depth < MaxDepth
  /\ IF Stem(last.bindingPath) = "index"
     THEN \E actualBindingPath \in
               {resolveReExportFromIndex(disk, last.bindingPath, last.symbolName)} :
            /\ last' = IF actualBindingPath # Null
                       THEN RecursionFrame(actualBindingPath, last.symbolName,
                                           last.depth + 1)
                       ELSE [op |-> "findGoDefinition:return",
                             bindingPath |-> last.bindingPath,
                             symbolName |-> last.symbolName,
                             depth |-> last.depth, resolved |-> FALSE,
                             ret |-> NoLocation, scanned |-> <<>>]
            /\ UNCHANGED cache
     ELSE \E r \in {findGoDefinition(config, files, cache, disk, WorkspaceFolders[1],
                                     last.bindingPath, last.symbolName)} :
            /\ cache' = r.cache
            /\ last' = [op |-> "findGoDefinition:return",
                        bindingPath |-> last.bindingPath,
                        symbolName |-> last.symbolName,
                        depth |-> last.depth, resolved |-> TRUE,
                        ret |-> r.ret, scanned |-> r.scanned]
  /\ UNCHANGED <<config, files, disk, isResolving, requests>>

NextRecursion == EnterFindGoDefinition

SpecRecursion == InitRecursion /\ [][NextRecursion]_vars

\* C26: a call of findGoDefinition entered from a barrel has depth at most
\* one and is made on a file whose stem is not index; when no sibling
\* exports the symbol the call on the barrel returns undefined itself,
\* without reading a Go file.
C26_DepthAtMostOne ==
  /\ last.depth <= 1
  /\ (last.op = "findGoDefinition:enter" /\ last.depth > 0)
       => Stem(last.bindingPath) # "index"
  /\ (last.op = "findGoDefinition:return" /\ ~last.resolved)
       => (last.depth = 0 /\ last.ret = NoLocation /\ last.scanned = <<>>)
  /\ (last.op = "findGoDefinition:return" /\ last.resolved)
       => last.ret = findGoDefinition(config, files, cache, disk,
                                      WorkspaceFolders[1], last.bindingPath,
                                      last.symbolName).ret

\* the lookup from index.js in a directory whose index.ts declares Greet has
\* returned from its call on greetservice.js, at depth one
C26_Witness ==
  /\ last.op = "findGoDefinition:return"
  /\ last.depth = 1
  /\ last.bindingPath = BarrelSiblings[2]
  /\ Readable(disk, WorkspaceFolders[1] \o "/" \o BindingsPackageDir \o "/index.ts")
  /\ ExportRegexTest(disk[WorkspaceFolders[1] \o "/" \o BindingsPackageDir
                            \o "/index.ts"], "Greet")
  /\ last.ret # NoLocation

\* the lookup from a barrel none of whose siblings declares Greet, although
\* index.ts does, has returned undefined
C26_NoSiblingExports ==
  /\ last.op = "findGoDefinition:return"
  /\ ~last.resolved
  /\ Readable(disk, WorkspaceFolders[1] \o "/" \o BindingsPackageDir \o "/index.ts")
  /\ ExportRegexTest(disk[WorkspaceFolders[1] \o "/" \o BindingsPackageDir
                            \o "/index.ts"], "Greet")

(***************************************************************************)
(* getBindingsDir and getFullBindingsPath side by side.                    *)
(***************************************************************************)
\* getBindingsDir(root) and then getFullBindingsPath(root), called in the
\* present state, return the same value
SameAnswer(root) ==
  Let(getBindingsDir(config, files, cache, root), LAMBDA first :
    getFullBindingsPath(config, files, first.cache, root).ret = first.ret)

\* C27: in every reachable state getBindingsDir(root) and
\* getFullBindingsPath(root), called back to back, return the same value.
C27_SameAnswer == \A root \in Roots : SameAnswer(root)

\* the same for the roots the cache holds no failed detection of
C27_SameAnswerWithoutNull ==
  \A root \in Roots :
    ~(root \in DOMAIN cache /\ cache[root] = Null) => SameAnswer(root)

(***************************************************************************)
(* The Taskfile scanner on a task with further subsections.                *)
(***************************************************************************)
\* the task generate:bindings with a command without -d, a generates:
\* subsection and another subsection with one list entry, before or after
\* generates:
SectionSpecs ==
  [glob : {"", "bindings", "frontend/bindings/**/*", "exclude: frontend/tmp/**/*"},
   key : {"sources", "deps", "preconditions"},
   entry : {"services/**/*.go", "./go.mod", "build"},
   place : {"before", "after"},
   cmds : BOOLEAN]

OtherSection(spec) ==
  "    " \o spec.key \o ":\n      - \"" \o spec.entry \o "\"\n"

TaskfileWithSections(spec) ==
  "version: '3'\ntasks:\n  generate:bindings:\n"
    \o (IF spec.cmds
        THEN "    cmds:\n      - wails3 generate bindings -clean=true -ts\n"
        ELSE "")
    \o (IF spec.place = "before"
        THEN OtherSection(spec) \o GeneratesSection(spec)
        ELSE GeneratesSection(spec) \o OtherSection(spec))

InitSections ==
  /\ Activated
  /\ last \in [op : {"call"}, spec : SectionSpecs]

\* parseTaskfileForBindingsDir(taskfilePath) for the Taskfile of the task
ParseTaskfileWithSections ==
  /\ last.op = "call"
  /\ last' = [op |-> "parseTaskfileForBindingsDir", spec |-> last.spec,
              ret |-> parseTaskfileForBindingsDir(TaskfileWithSections(last.spec))]
  /\ UNCHANGED <<config, files, cache, disk, isResolving, requests>>

NextSections == ParseTaskfileWithSections

SpecSections == InitSections /\ [][NextSections]_vars

\* C28: the entries of a subsection other than generates: are never taken
\* as output globs: the result is the directory of the generates: entry,
\* and null when that entry yields none.
C28_OnlyGeneratesEntries ==
  last.op = "parseTaskfileForBindingsDir" => last.ret = GlobDir(last.spec.glob)

\* the same for the tasks whose other subsection precedes generates:
C28_SectionBeforeGenerates ==
  (last.op = "parseTaskfileForBindingsDir" /\ last.spec.place = "before")
    => last.ret = GlobDir(last.spec.glob)

\* the entry of a subsection that follows generates: is returned when it
\* holds a slash and the generates: entry yields nothing
C28_EntryAfterGeneratesIsTaken ==
  (/\ last.op = "parseTaskfileForBindingsDir"
   /\ last.spec.place = "after"
   /\ last.spec.glob \in {"bindings", "exclude: frontend/tmp/**/*"}
   /\ Includes(last.spec.entry, "/"))
    => last.ret = last.spec.entry

(***************************************************************************)
(* findGoDefinition in a workspace of several folders.                     *)
(***************************************************************************)
\* the Taskfile.yml of a folder: none, or one naming a bindings directory
FolderTaskfiles == {Absent, TaskfileFlag, TaskfileFlagPath}

\* the directories the lookup's bindings file lies below
FolderBindingsDirs == {DefaultBindingsPath, "frontend/gen/bindings", "frontend/bindings"}

\* every folder is a module changeme whose greetservice.go and
\* pkg/greetservice.go each declare Greet or are missing
FolderDisks ==
  {[p \in DiskPaths |->
      IF \E r \in Roots : p = r \o "/greetservice.go" THEN top
      ELSE IF \E r \in Roots : p = r \o "/pkg/greetservice.go" THEN pkg
      ELSE InitialDisk[p]] :
     top \in {GoLine("method", "Greet"), Absent},
     pkg \in {GoLine("method", "Greet"), Absent}}

InitFolders ==
  /\ config = [sc \in ConfigScopes |-> Undefined]
  /\ \E t \in [Roots -> FolderTaskfiles] :
       files = [r \in Roots |-> [EmptyDir EXCEPT ![TaskfileNames[1]] = t[r]]]
  /\ cache = EmptyCache
  /\ ProviderIdle
  /\ disk \in FolderDisks
  /\ last \in [op : {"call"}, root : Roots, bindingsDir : FolderBindingsDirs]

\* findGoDefinition(folder, <folder>/<bindingsDir>/changeme/pkg/greetservice.js,
\* "Greet"), with the path its first constructGoFilePath call yields
FindGoDefinitionInFolder ==
  /\ last.op = "call"
  /\ \E bindingPath \in {last.root \o "/" \o last.bindingsDir
                           \o "/changeme/pkg/greetservice.js"} :
     \E r \in {findGoDefinition(config, files, cache, disk, last.root,
                                bindingPath, "Greet")} :
       /\ cache' = r.cache
       /\ last' = [op |-> "findGoDefinition", root |-> last.root,
                   bindingsDir |-> last.bindingsDir,
                   constructed |-> constructGoFilePath(config, files, cache, disk,
                                     last.root, bindingPath, "greetservice.go").ret,
                   ret |-> r.ret]
  /\ UNCHANGED <<config, files, disk, isResolving, requests>>

NextFolders == FindGoDefinitionInFolder

SpecFolders == InitFolders /\ [][NextFolders]_vars

\* the lookup was made for a file below the bindings directory resolved for
\* its own folder
BelowFolderBindingsDir ==
  /\ last.op = "findGoDefinition"
  /\ last.bindingsDir = getBindingsDir(config, files, cache, last.root).ret

\* C29: for a bindings file below the bindings directory of its folder, the
\* path is reconstructed with that directory: it is <folder>/pkg/greetservice.go,
\* and the declaration in that file is returned when it has one.
C29_DirOfTheSameFolder ==
  BelowFolderBindingsDir
    => /\ last.constructed = last.root \o "/pkg/greetservice.go"
       /\ Declares(disk, last.root \o "/pkg/greetservice.go", "Greet")
            => (last.ret # NoLocation
                  /\ last.ret.uri = last.root \o "/pkg/greetservice.go")

\* the same for the lookups in the first workspace folder
C29_FirstFolder ==
  (BelowFolderBindingsDir /\ last.root = WorkspaceFolders[1])
    => /\ last.constructed = last.root \o "/pkg/greetservice.go"
       /\ Declares(disk, last.root \o "/pkg/greetservice.go", "Greet")
            => (last.ret # NoLocation
                  /\ last.ret.uri = last.root \o "/pkg/greetservice.go")

(***************************************************************************)
(* The ranges of the lenses of user code.                                  *)
(***************************************************************************)
\* the calls of a document: the local name of the namespace import, the
\* method called, what precedes the call on its line, and whether a second
\* call follows on the same line
RangeSpecs ==
  [localName : {"GreetService", "Svc", "Greeter"},
   method : {"Greet", "Service", "Stop"},
   before : {"", "await ", "const Greet = "},
   twice : BOOLEAN]

\* the line of the call
RangeCallLine(spec) ==
  spec.before \o spec.localName \o "." \o spec.method \o "(\"x\");"
    \o (IF spec.twice THEN " " \o spec.localName \o ".Stop();" ELSE "")

\* user code with the import, the line of the call and a line with a call
\* of Stop
RangeDocument(spec) ==
  "import * as " \o spec.localName \o " from \"../bindings/changeme\";\n"
    \o RangeCallLine(spec) \o "\n"
    \o spec.localName \o ".Stop();\n"

InitRanges ==
  /\ Activated
  /\ last \in [op : {"call"}, spec : RangeSpecs]

\* provideCodeLenses(document) for the document of the calls
ProvideCodeLensesForRange ==
  /\ last.op = "call"
  /\ \E r \in {provideCodeLenses(config, files, cache, disk, UserCodePath,
                                 RangeDocument(last.spec))} :
       /\ cache' = r.cache
       /\ last' = [op |-> "provideCodeLenses", spec |-> last.spec, ret |-> r.ret]
  /\ UNCHANGED <<config, files, disk, isResolving, requests>>

NextRanges == ProvideCodeLensesForRange

SpecRanges == InitRanges /\ [][NextRanges]_vars

\* the lenses lie on pairwise distinct lines
DistinctLines(lenses) ==
  \A j, k \in 1..Len(lenses) : j # k => lenses[j].line # lenses[k].line

\* the range of the lens is that of its method name, directly after the
\* local name and the dot
OnMethodToken(spec, lens) ==
  Let(DocumentLines(RangeDocument(spec))[lens.line + 1], LAMBDA line :
    /\ lens.end - lens.start = Len(lens.symbolName)
    /\ SubSeq(line, lens.start + 1, lens.end) = lens.symbolName
    /\ lens.start >= Len(spec.localName) + 1
    /\ SubSeq(line, lens.start - Len(spec.localName), lens.start)
         = spec.localName \o ".")

\* C30: every lens of user code for X.Method( has the range of the method
\* name token after `X.`, also when the method name occurs inside X, and
\* the lenses lie on pairwise distinct lines.
C30_RangeIsMethodToken ==
  last.op = "provideCodeLenses"
    => /\ Len(last.ret) = 2
       /\ DistinctLines(last.ret)
       /\ \A k \in 1..Len(last.ret) : OnMethodToken(last.spec, last.ret[k])

\* the lenses lie on distinct lines, one for each line with a call
C30_DistinctLines ==
  last.op = "provideCodeLenses"
    => /\ Len(last.ret) = 2
       /\ DistinctLines(last.ret)

\* the range is that of the method name when the name does not occur in
\* the local name
C30_RangeUnlessInsideReceiver ==
  (last.op = "provideCodeLenses"
     /\ ~Includes(last.spec.localName, last.spec.method))
    => \A k \in 1..Len(last.ret) : OnMethodToken(last.spec, last.ret[k])

====
